---- MODULE Spec2Model ----
(***************************************************************************)
(* Risk dashboard: client-side data reconciliation layer.                  *)
(*                                                                         *)
(*   - the zustand store (riskStore): history, summary, current metrics,   *)
(*     isLoading, error, lastUpdated                                       *)
(*   - ApiService.fetchWithRetry / getRiskHistory                          *)
(*   - the useRiskData hook: range effect, initial-fetch effect,           *)
(*     refreshData                                                         *)
(*   - the useWebSocket hook: connect, onopen, onmessage, onclose,         *)
(*     onerror, disconnect                                                 *)
(*   - the functions that compute on the data: _generateSummaryFromArray,  *)
(*     calculatePeriodMetrics, getWarningStatus, getDataQualityScore,      *)
(*     sanitizeRiskData                                                    *)
(*                                                                         *)
(* JavaScript runs the handlers on one event loop.  An action below is one *)
(* task of that loop together with the microtasks (promise continuations,  *)
(* the synchronous re-render of the subscribed component) it triggers, so  *)
(* at the start of every action the values a rendered closure captured     *)
(* are the values in the store.  Time is counted in seconds.               *)
(***************************************************************************)
EXTENDS Integers, Sequences, FiniteSets, TLC

(***************************************************************************)
(* Bounds of the model.                                                    *)
(***************************************************************************)
MaxFetches == 2
MaxSockets == 2
\* the longest observation list and the largest risk score the functions
\* are called with
MaxLen == 3
MaxRisk == 2

(***************************************************************************)
(* JavaScript values.  Every value has the same record shape so that any   *)
(* two of them can be compared: t is the type tag, n / d the number (a     *)
(* fraction in lowest terms with d > 0; d = 0 is NaN), s the string, o the *)
(* fields of an object, a the elements of an array.                        *)
(***************************************************************************)
NoFields == [f \in {} |-> 0]

Undefined == [t |-> "undefined", n |-> 0, d |-> 1, s |-> "", o |-> NoFields, a |-> <<>>]

JsNull == [t |-> "null", n |-> 0, d |-> 1, s |-> "", o |-> NoFields, a |-> <<>>]

Num(x) == [t |-> "number", n |-> x, d |-> 1, s |-> "", o |-> NoFields, a |-> <<>>]

Str(x) == [t |-> "string", n |-> 0, d |-> 1, s |-> x, o |-> NoFields, a |-> <<>>]

Bool(b) ==
  [t |-> "boolean", n |-> IF b THEN 1 ELSE 0, d |-> 1, s |-> "", o |-> NoFields, a |-> <<>>]

Obj(fields) == [t |-> "object", n |-> 0, d |-> 1, s |-> "", o |-> fields, a |-> <<>>]

Arr(items) == [t |-> "array", n |-> 0, d |-> 1, s |-> "", o |-> NoFields, a |-> items]

\* v.f : reading a property of a value (undefined when it is absent)
Get(v, f) == IF v.t = "object" /\ f \in DOMAIN v.o THEN v.o[f] ELSE Undefined

\* the truthiness of a value, as `if (v)`, `!v`, `a && b`, `a || b` see it
Truthy(v) ==
  CASE v.t = "undefined" -> FALSE
    [] v.t = "null"      -> FALSE
    [] v.t = "number"    -> v.n # 0 /\ v.d # 0
    [] v.t = "string"    -> v.s # ""
    [] v.t = "boolean"   -> v.n = 1
    [] OTHER             -> TRUE

\* typeof v === 'object' (arrays and null are objects to typeof)
TypeofObject(v) == v.t \in {"object", "array", "null"}

IsArray(v) == v.t = "array"

\* a || b on values
OrElse(v, w) == IF Truthy(v) THEN v ELSE w

(***************************************************************************)
(* Numbers.  A JavaScript number is modelled by an exact fraction; only    *)
(* Math.sqrt of a number that is not the square of a fraction is cut to    *)
(* three decimals.                                                         *)
(***************************************************************************)
NaN == [t |-> "number", n |-> 0, d |-> 0, s |-> "", o |-> NoFields, a |-> <<>>]

Abs(x) == IF x < 0 THEN 0 - x ELSE x

RECURSIVE GCD(_, _)
GCD(x, y) == IF y = 0 THEN x ELSE GCD(y, x % y)

\* the number n / d
Rat(n, d) ==
  IF d = 0
    THEN NaN
    ELSE LET g == GCD(Abs(n), Abs(d))
             m == IF d < 0 THEN 0 - n ELSE n
         IN  [t |-> "number", n |-> m \div g, d |-> Abs(d) \div g, s |-> "",
              o |-> NoFields, a |-> <<>>]

\* ToNumber: what the arithmetic and relational operators and isNaN turn a
\* value into (the model's non-empty strings are not numerals)
ToNumber(v) ==
  CASE v.t = "number"  -> v
    [] v.t = "null"    -> Num(0)
    [] v.t = "boolean" -> Num(v.n)
    [] v.t = "string"  -> IF v.s = "" THEN Num(0) ELSE NaN
    [] OTHER           -> NaN

\* isNaN(v)
IsNaN(v) == ToNumber(v).d = 0

\* x + y, x - y, x * y, x / y on numbers (no operand is a string)
Plus(v, w) ==
  LET x == ToNumber(v)  y == ToNumber(w) IN
  IF x.d = 0 \/ y.d = 0 THEN NaN ELSE Rat(x.n * y.d + y.n * x.d, x.d * y.d)

Minus(v, w) ==
  LET x == ToNumber(v)  y == ToNumber(w) IN
  IF x.d = 0 \/ y.d = 0 THEN NaN ELSE Rat(x.n * y.d - y.n * x.d, x.d * y.d)

Times(v, w) ==
  LET x == ToNumber(v)  y == ToNumber(w) IN
  IF x.d = 0 \/ y.d = 0 THEN NaN ELSE Rat(x.n * y.n, x.d * y.d)

\* the divisor is never 0 where the code divides
Over(v, w) ==
  LET x == ToNumber(v)  y == ToNumber(w) IN
  IF x.d = 0 \/ y.d = 0 THEN NaN ELSE Rat(x.n * y.d, x.d * y.n)

\* v > w and v >= w: false when either side is NaN
GreaterThan(v, w) ==
  LET x == ToNumber(v)  y == ToNumber(w) IN
  x.d # 0 /\ y.d # 0 /\ x.n * y.d > y.n * x.d

AtLeast(v, w) ==
  LET x == ToNumber(v)  y == ToNumber(w) IN
  x.d # 0 /\ y.d # 0 /\ x.n * y.d >= y.n * x.d

RECURSIVE SqrtSearch(_, _, _)
SqrtSearch(lo, hi, x) ==
  IF lo = hi
    THEN lo
    ELSE LET mid == (lo + hi + 1) \div 2
         IN  IF mid * mid <= x THEN SqrtSearch(mid, hi, x) ELSE SqrtSearch(lo, mid - 1, x)

\* the largest integer whose square is at most x
ISqrt(x) == SqrtSearch(0, IF x < 46340 THEN x ELSE 46340, x)

\* Math.sqrt
Sqrt(v) ==
  IF v.d = 0 \/ v.n < 0
    THEN NaN
    ELSE LET rn == ISqrt(v.n)
             rd == ISqrt(v.d)
         IN  IF rn * rn = v.n /\ rd * rd = v.d
               THEN Rat(rn, rd)
               ELSE Rat(ISqrt((v.n * 1000000) \div v.d), 1000)


(***************************************************************************)
(* Date strings.  TLC cannot look inside a string, so the characters of    *)
(* the date literals the inputs use are listed here.                       *)
(***************************************************************************)
DateValid1 == "2024-01-01"
DateValid2 == "2024-02-01"
DateSlashes == "01/02/2024"

Chars(s) ==
  CASE s = DateValid1  -> <<"2","0","2","4","-","0","1","-","0","1">>
    [] s = DateValid2  -> <<"2","0","2","4","-","0","2","-","0","1">>
    [] s = DateSlashes -> <<"0","1","/","0","2","/","2","0","2","4">>
    [] s = "2024-01-02" -> <<"2","0","2","4","-","0","1","-","0","2">>
    [] s = "/ws/risk"   -> <<"/","w","s","/","r","i","s","k">>
    [] s = "null"       -> <<"n","u","l","l">>
    [] OTHER           -> <<>>

Digits == <<"0","1","2","3","4","5","6","7","8","9">>

IsDigit(c) == \E k \in 1..10 : Digits[k] = c

DigitValue(c) == (CHOOSE k \in 1..10 : Digits[k] = c) - 1

\* str.match(/^\d{4}-\d{2}-\d{2}$/)
MatchesYMD(s) ==
  LET c == Chars(s) IN
    /\ Len(c) = 10
    /\ \A k \in {1, 2, 3, 4, 6, 7, 9, 10} : IsDigit(c[k])
    /\ c[5] = "-"
    /\ c[8] = "-"

\* new Date("YYYY-MM-DD"), as a number that orders the dates as their
\* timestamps do
DateOrder(s) ==
  LET c == Chars(s)
      d(k) == DigitValue(c[k])
  IN  (d(1) * 1000 + d(2) * 100 + d(3) * 10 + d(4)) * 10000
        + (d(6) * 10 + d(7)) * 100 + (d(9) * 10 + d(10))

(***************************************************************************)
(* validators.js                                                           *)
(***************************************************************************)
\* isValidNumber: the model has NaN and no infinity
isValidNumber(v) == v.t = "number" /\ v.d # 0

\* validateApiResponse: the message thrown, or "" when it returns true
validateApiResponse(response) ==
  IF ~Truthy(response) \/ ~TypeofObject(response)
    THEN "Invalid API response format"
    ELSE IF Truthy(Get(response, "error"))
           THEN Get(response, "error").s
           ELSE ""

\* validateDateRangeParams: the message thrown, or "" when it returns true
validateDateRangeParams(params) ==
  LET days      == Get(params, "days")
      startDate == Get(params, "startDate")
      endDate   == Get(params, "endDate")
  IN
  IF days.t # "undefined" /\ (~isValidNumber(days) \/ days.n <= 0)
    THEN "Days parameter must be a positive number"
  ELSE IF startDate.t # "undefined" /\ (startDate.t # "string" \/ ~MatchesYMD(startDate.s))
    THEN "startDate must be in YYYY-MM-DD format"
  ELSE IF endDate.t # "undefined" /\ (endDate.t # "string" \/ ~MatchesYMD(endDate.s))
    THEN "endDate must be in YYYY-MM-DD format"
  ELSE IF Truthy(startDate) /\ Truthy(endDate) /\ DateOrder(startDate.s) > DateOrder(endDate.s)
    THEN "startDate cannot be after endDate"
  ELSE ""

\* maxScore counting a field whether it is present or not
PossibleAlways(present, weight) == weight

\* what a field adds to maxScore
Possible(present, weight) == IF present THEN weight ELSE 0

\* what a field adds to score
Earned(present, valid, weight) == IF present /\ valid THEN weight ELSE 0

additionalSignals ==
  <<"pca_component", "credit_component", "quantile_signal",
    "dcc_correlation", "har_excess_vol_z", "composite_risk_score">>

RECURSIVE SumOver(_, _)
SumOver(points, k) == IF k = 0 THEN 0 ELSE points[k] + SumOver(points, k - 1)

getDataQualityScore(data) ==
  IF ~Truthy(data)
    THEN Num(0)
    ELSE
      LET has(f)     == Get(data, f).t # "undefined"
          risk       == Get(data, "systemic_risk")
          level      == Get(data, "risk_level")
          timestamp  == Get(data, "timestamp")
          levelOk    == level \in {Str("high"), Str("medium"), Str("low")}
          timeOk     == timestamp.t = "string" /\ timestamp.s # ""
          signalMax  == [k \in 1..Len(additionalSignals) |->
                           Possible(has(additionalSignals[k]), 5)]
          signalGot  == [k \in 1..Len(additionalSignals) |->
                           Earned(has(additionalSignals[k]),
                                  isValidNumber(Get(data, additionalSignals[k])), 5)]
          maxScore   == Possible(has("systemic_risk"), 20) + Possible(has("risk_level"), 20)
                          + Possible(has("timestamp"), 20)
                          + SumOver(signalMax, Len(additionalSignals))
          score      == Earned(has("systemic_risk"), isValidNumber(risk), 20)
                          + Earned(has("risk_level"), levelOk, 20)
                          + Earned(has("timestamp"), timeOk, 20)
                          + SumOver(signalGot, Len(additionalSignals))
      IN  IF maxScore > 0
            THEN Times(Over(Num(score), Num(maxScore)), Num(100))
            ELSE Num(0)

\* the first k decimals of r / d (0 <= r < d) and the remainder after them
RECURSIVE Decimals(_, _, _)
Decimals(r, d, k) ==
  IF k = 0
    THEN [digits |-> 0, rest |-> r]
    ELSE LET before == Decimals(r, d, k - 1)
         IN  [digits |-> before.digits * 10 + (before.rest * 10) \div d,
              rest   |-> (before.rest * 10) % d]

\* x.toFixed(6) left as the string it is
ToFixedString(v) == Str(ToString(v.n) \o "/" \o ToString(v.d))

\* Number(x.toFixed(6)): x rounded to 6 decimals, a tie away from zero
RoundedTo6(v) ==
  LET m      == Abs(v.n)
      frac   == Decimals(m % v.d, v.d, 6)
      millionths == (m \div v.d) * 1000000 + frac.digits
                      + (IF 2 * frac.rest >= v.d THEN 1 ELSE 0)
  IN  Rat(IF v.n < 0 THEN 0 - millionths ELSE millionths, 1000000)

numericFields ==
  {"systemic_risk", "systemic_mean", "systemic_std", "pca_component", "credit_component",
   "quantile_signal", "dcc_correlation", "har_excess_vol_z", "credit_spread_change",
   "vix_change", "composite_risk_score"}

booleanFields == {"is_warning", "corr_exceeds_bootstrap"}

\* { ...data }: the own fields of an object, the elements of an array under
\* their indices
Spread(data) ==
  IF IsArray(data)
    THEN [f \in {ToString(k - 1) : k \in 1..Len(data.a)} |->
            data.a[CHOOSE k \in 1..Len(data.a) : ToString(k - 1) = f]]
    ELSE data.o

sanitizeRiskData(data) ==
  IF ~Truthy(data) \/ ~TypeofObject(data)
    THEN data
    ELSE
      LET sanitized == Spread(data) IN
      Obj([f \in DOMAIN sanitized |->
             IF f \in numericFields
               THEN IF isValidNumber(sanitized[f]) THEN RoundedTo6(sanitized[f]) ELSE JsNull
             ELSE IF f \in booleanFields
               THEN Bool(Truthy(sanitized[f]))
             ELSE sanitized[f]])

(***************************************************************************)
(* riskStore: the state and its setters.  A setter maps a store to the     *)
(* store after the call.                                                   *)
(***************************************************************************)
\* new Date(): the model has no wall clock, every date object is this one
NewDate == [t |-> "date", n |-> 0, d |-> 1, s |-> "", o |-> NoFields, a |-> <<>>]

InitialStore ==
  [ riskHistory    |-> Arr(<<>>),
    summaryData    |-> JsNull,
    currentMetrics |-> Obj(NoFields),
    isLoading      |-> FALSE,
    error          |-> JsNull,
    lastUpdated    |-> JsNull ]

setRiskData(st, data) ==
  IF Truthy(data) /\ Truthy(Get(data, "data")) /\ IsArray(Get(data, "data"))
    THEN [st EXCEPT !.riskHistory    = Get(data, "data"),
                    !.summaryData    = OrElse(Get(data, "summary"), JsNull),
                    !.currentMetrics = OrElse(Get(data, "current_metrics"), Obj(NoFields)),
                    !.lastUpdated    = NewDate,
                    !.error          = JsNull]
    ELSE IF IsArray(data)
      THEN [st EXCEPT !.riskHistory    = data,
                      !.summaryData    = JsNull,
                      !.currentMetrics = Obj(NoFields),
                      !.lastUpdated    = NewDate,
                      !.error          = JsNull]
      ELSE [st EXCEPT !.riskHistory    = Arr(<<>>),
                      !.summaryData    = JsNull,
                      !.currentMetrics = Obj(NoFields),
                      !.error          = Str("Invalid data format")]

setRealtimeData(st, realtimeData) ==
  [st EXCEPT !.currentMetrics = realtimeData, !.lastUpdated = NewDate]

setLoading(st, loading) == [st EXCEPT !.isLoading = loading]

setError(st, error) == [st EXCEPT !.error = error]

\* the comparison of a warning rule as >=
ExceedsOrMeets(v, limit) == AtLeast(v, limit)

\* the comparison of a warning rule: v > limit
Exceeds(v, limit) == GreaterThan(v, limit)

getWarningStatus(st) ==
  LET currentMetrics == st.currentMetrics IN
  IF ~Truthy(currentMetrics)
    THEN Obj([isWarning |-> Bool(FALSE), reasons |-> Arr(<<>>)])
    ELSE
      LET isWarning == OrElse(Get(currentMetrics, "composite_warning"), Bool(FALSE))
          har == IF Exceeds(Get(currentMetrics, "har_excess_vol"), Num(2))
                   THEN <<Str("HAR Excess Volatility above threshold")>> ELSE <<>>
          dcc == IF Exceeds(Get(currentMetrics, "dcc_correlation"), Rat(95, 100))
                   THEN <<Str("DCC Correlation elevated")>> ELSE <<>>
          sys == IF Exceeds(Get(currentMetrics, "systemic_risk"),
                            Plus(Get(currentMetrics, "systemic_mean"),
                                 Get(currentMetrics, "systemic_std")))
                   THEN <<Str("Systemic risk above normal range")>> ELSE <<>>
      IN  Obj([isWarning |-> isWarning, reasons |-> Arr(har \o dcc \o sys)])

getLatestRisk(st) ==
  IF Len(st.riskHistory.a) > 0 THEN st.riskHistory.a[Len(st.riskHistory.a)]
                               ELSE Obj(NoFields)

getDisplayData(st) == st.riskHistory


(***************************************************************************)
(* Inputs: the ranges the hook is given, the responses of the transport.   *)
(***************************************************************************)
Range(days, startDate, endDate) ==
  Obj([days |-> days, startDate |-> startDate, endDate |-> endDate])

\* the App mounts the hook with appliedRange = 180
DefaultDays == 180

RangeInputs ==
  { Num(DefaultDays),
    Num(90),
    Obj([days |-> Num(90)]),
    Num(-5),
    Obj([startDate |-> Str(DateValid1), endDate |-> Str(DateValid2)]),
    Obj([startDate |-> Str(DateValid2), endDate |-> Str(DateValid1)]),
    Obj([startDate |-> Str(DateSlashes), endDate |-> Str(DateValid2)]) }

Observation(date, risk, regime) ==
  Obj([date |-> Str(date), timestamp |-> Str(date), systemic_risk |-> Num(risk),
       risk_level |-> Str(regime)])

BodyEnhanced ==
  Obj([data    |-> Arr(<<Observation("2024-01-01", 1, "low"),
                         Observation("2024-01-02", 3, "high")>>),
       summary |-> Obj([period_mean |-> Num(2), period_std |-> Num(1)])])

BodyLegacy ==
  Arr(<<Observation("2024-01-01", 0, "low"), Observation("2024-01-02", 2, "medium")>>)

BodyEmptyObject == Obj(NoFields)

BodyWithError == Obj([error |-> Str("upstream failure")])

BodyNotObject == Num(5)

BodyDataNotArray == Obj([data |-> Str("none")])

\* an enhanced body none of whose items has a numeric risk score, a regime
\* or a timestamp
BodyNoValidItem ==
  Obj([data |-> Arr(<<Obj([date |-> Str("2024-01-01"), systemic_risk |-> Str("n/a")]),
                      Obj([note |-> Str("gap")])>>)])

\* a legacy body with one item that has them all and one that has none
BodyOneValidItem ==
  Arr(<<Observation("2024-01-01", 2, "RED"), Obj([note |-> Str("gap")])>>)

\* an enhanced body whose observations are listed newest first
BodyNewestFirst ==
  Obj([data    |-> Arr(<<Observation("2024-01-02", 3, "high"),
                         Observation("2024-01-01", 1, "low")>>),
       summary |-> Obj([period_mean |-> Num(2), period_std |-> Num(1)])])

Bodies ==
  {BodyEnhanced, BodyLegacy, BodyEmptyObject, BodyWithError, BodyNotObject,
   BodyDataNotArray, BodyNoValidItem, BodyOneValidItem}

\* what one call of fetch() ends in: the promise rejects (no response), or a
\* response arrives with a status and a body that response.json() decodes
\* or fails to decode
Responses ==
  { [rejects |-> TRUE, ok |-> FALSE, status |-> 0, parses |-> FALSE, body |-> Undefined],
    [rejects |-> FALSE, ok |-> FALSE, status |-> 500, parses |-> TRUE, body |-> BodyWithError],
    [rejects |-> FALSE, ok |-> TRUE, status |-> 200, parses |-> FALSE, body |-> Undefined] }
  \cup
  { [rejects |-> FALSE, ok |-> TRUE, status |-> 200, parses |-> TRUE, body |-> b] : b \in Bodies }

(***************************************************************************)
(* api.js: ApiService                                                      *)
(***************************************************************************)
\* fetchWithRetry(endpoint, options = {}, retries = 3)
Retries == 3

\* BackoffDelay without the exponent
BackoffDelayFixed(attempt) == 1

\* Math.pow(2, attempt) * 1000 milliseconds, in seconds
BackoffDelay(attempt) == 2 ^ attempt

\* the try block of one loop iteration of fetchWithRetry: what it throws
\* (thrown names the statement that threw) or the data it returns
TryAttempt(resp) ==
  IF resp.rejects
    THEN [thrown |-> "fetch", message |-> "Failed to fetch", data |-> Undefined]
  ELSE IF ~resp.ok
    THEN [thrown |-> "status", message |-> "HTTP error! status: " \o ToString(resp.status),
          data |-> Undefined]
  ELSE IF ~resp.parses
    THEN [thrown |-> "json", message |-> "Unexpected token < in JSON at position 0",
          data |-> Undefined]
  ELSE IF validateApiResponse(resp.body) # ""
    THEN [thrown |-> "validate", message |-> validateApiResponse(resp.body),
          data |-> Undefined]
  ELSE [thrown |-> "", message |-> "", data |-> resp.body]

\* LastAttempt one attempt early
LastAttemptEarly(attempt) == attempt = Retries - 2

\* the catch block of fetchWithRetry: TRUE when the error is thrown on to the
\* caller, FALSE when the loop waits and goes round again
LastAttempt(attempt) == attempt = Retries - 1

\* the query string getRiskHistory builds from its destructured argument
\* (a missing field defaults to null)
QueryParams(range) ==
  LET dflt(v)   == IF v.t = "undefined" THEN JsNull ELSE v
      days      == dflt(Get(range, "days"))
      startDate == dflt(Get(range, "startDate"))
      endDate   == dflt(Get(range, "endDate"))
      none      == ~Truthy(days) /\ ~Truthy(startDate) /\ ~Truthy(endDate)
  IN  [ days       |-> IF Truthy(days) THEN days
                       ELSE IF none THEN Num(180) ELSE Undefined,
        start_date |-> IF Truthy(startDate) THEN startDate ELSE Undefined,
        end_date   |-> IF Truthy(endDate) THEN endDate ELSE Undefined ]

\* reduce((sum, risk) => sum + risk, 0)
RECURSIVE SumSeq(_)
SumSeq(q) == IF q = <<>> THEN Num(0) ELSE Plus(Head(q), SumSeq(Tail(q)))

\* Math.min(...q) and Math.max(...q) of a non-empty q
SeqMin(q) ==
  CHOOSE x \in {ToNumber(q[k]) : k \in 1..Len(q)} : \A k \in 1..Len(q) : AtLeast(q[k], x)

SeqMax(q) ==
  CHOOSE x \in {ToNumber(q[k]) : k \in 1..Len(q)} : \A k \in 1..Len(q) : AtLeast(x, q[k])

\* reduce(...) / q.length
Mean(q) == Over(SumSeq(q), Num(Len(q)))

\* the standard deviation of a sample: the divisor is N - 1
SampleStd(q, mean) ==
  IF Len(q) = 1
    THEN NaN
    ELSE Sqrt(Over(SumSeq([k \in 1..Len(q) |->
                             Times(Minus(q[k], mean), Minus(q[k], mean))]),
                   Num(Len(q) - 1)))

\* Math.sqrt(reduce((sum, x) => sum + Math.pow(x - mean, 2), 0) / q.length)
Std(q, mean) ==
  Sqrt(Over(SumSeq([k \in 1..Len(q) |-> Times(Minus(q[k], mean), Minus(q[k], mean))]),
            Num(Len(q))))

\* _generateSummaryFromArray (every item of the array is an object)
generateSummaryFromArray(data) ==
  IF ~Truthy(data) \/ ~IsArray(data) \/ Len(data.a) = 0
    THEN JsNull
    ELSE
      LET NotNaN(risk) == ~IsNaN(risk)
          systemicRisks ==
            SelectSeq([k \in 1..Len(data.a) |->
                         OrElse(Get(data.a[k], "systemic_risk"), Num(0))], NotNaN)
      IN
      IF Len(systemicRisks) = 0
        THEN JsNull
        ELSE
          LET mean == Mean(systemicRisks)
              std  == Std(systemicRisks, mean)
          IN  Obj([ period_mean |-> mean,
                    period_std  |-> std,
                    period_min  |-> SeqMin(systemicRisks),
                    period_max  |-> SeqMax(systemicRisks),
                    data_points |-> Num(Len(data.a)),
                    date_range  |->
                      Obj([start |-> OrElse(Get(data.a[1], "date"), Str("")),
                           end   |-> OrElse(Get(data.a[Len(data.a)], "date"), Str(""))]) ])

\* the shape check returning a legacy array as it came
NormalizeResponseUnwrapped(response) ==
  IF Truthy(response) /\ Truthy(Get(response, "data")) /\ IsArray(Get(response, "data"))
    THEN [thrown |-> "", message |-> "", value |-> response]
  ELSE IF IsArray(response)
    THEN [thrown |-> "", message |-> "", value |-> response]
  ELSE [thrown |-> "shape", message |-> "Invalid risk data format received",
        value |-> Undefined]

\* getRiskHistory after fetchWithRetry has returned: the shape check
NormalizeResponse(response) ==
  IF Truthy(response) /\ Truthy(Get(response, "data")) /\ IsArray(Get(response, "data"))
    THEN [thrown |-> "", message |-> "", value |-> response]
  ELSE IF IsArray(response)
    THEN [thrown |-> "", message |-> "",
          value |-> Obj([data |-> response, summary |-> generateSummaryFromArray(response)])]
  ELSE [thrown |-> "shape", message |-> "Invalid risk data format received",
        value |-> Undefined]


(***************************************************************************)
(* App.jsx: the period metrics the App computes on every render            *)
(***************************************************************************)
\* v ?? w
Nullish(v, w) == IF v.t \in {"null", "undefined"} THEN w ELSE v

\* const currentRisk = currentMetrics || latestRisk || {}
CurrentRisk(st) == OrElse(st.currentMetrics, OrElse(getLatestRisk(st), Obj(NoFields)))

\* displayData.map(d => d[field]).filter(v => !isNaN(v) && v !== null &&
\* v !== undefined)
Column(displayData, field) ==
  LET Kept(v) == ~IsNaN(v) /\ v.t # "null" /\ v.t # "undefined" IN
  SelectSeq([k \in 1..Len(displayData.a) |-> Get(displayData.a[k], field)], Kept)

\* the average of a column, null for an empty one
Average(q) == IF Len(q) > 0 THEN Mean(q) ELSE JsNull

\* periodRiskLevel with > in place of >=
PeriodRiskLevelStrict(currentPeriodRisk, periodMean, periodStd) ==
  LET highThreshold   == Plus(periodMean, periodStd)
      mediumThreshold == Plus(periodMean, Times(Rat(1, 2), periodStd))
  IN  IF GreaterThan(currentPeriodRisk, highThreshold) THEN "high"
      ELSE IF GreaterThan(currentPeriodRisk, mediumThreshold) THEN "medium"
      ELSE "low"

\* periodRiskLevel
PeriodRiskLevel(currentPeriodRisk, periodMean, periodStd) ==
  LET highThreshold   == Plus(periodMean, periodStd)
      mediumThreshold == Plus(periodMean, Times(Rat(1, 2), periodStd))
  IN  IF AtLeast(currentPeriodRisk, highThreshold) THEN "high"
      ELSE IF AtLeast(currentPeriodRisk, mediumThreshold) THEN "medium"
      ELSE "low"

\* calculatePeriodMetrics: the fields it computes and four of the fields it
\* copies from currentRisk (the others are copied alike)
calculatePeriodMetrics(displayData, currentRisk) ==
  IF Len(displayData.a) = 0
    THEN currentRisk
    ELSE
      LET systemicRisks == Column(displayData, "systemic_risk")
          pcaScores     == Column(displayData, "pca_signal_score")
          creditScores  == Column(displayData, "credit_signal_score")
          zScores       == Column(displayData, "z_score")
      IN
      IF Len(systemicRisks) = 0
        THEN currentRisk
        ELSE
          LET zs == Get(Get(currentRisk, "regime_details"), "component_z_scores")
              currentPCAScore    == Nullish(Get(zs, "pca"), JsNull)
              currentCreditScore == Nullish(Get(zs, "credit"), JsNull)
              periodMean        == Mean(systemicRisks)
              periodStd         == Std(systemicRisks, periodMean)
              currentPeriodRisk == systemicRisks[Len(systemicRisks)]
              avgPCASignal      == Average(pcaScores)
              avgCreditSignal   == Average(creditScores)
              avgZScore         == Average(zScores)
              periodRiskLevel   ==
                PeriodRiskLevel(currentPeriodRisk, periodMean, periodStd)
          IN  Obj([ systemic_risk       |-> currentPeriodRisk,
                    avg_systemic_risk   |-> periodMean,
                    systemic_mean       |-> periodMean,
                    systemic_std        |-> periodStd,
                    pca_signal_score    |-> Nullish(currentPCAScore, avgPCASignal),
                    credit_signal_score |-> Nullish(currentCreditScore, avgCreditSignal),
                    z_score             |-> Nullish(Get(currentRisk, "systemic_risk"), avgZScore),
                    dcc_correlation     |-> Get(currentRisk, "dcc_correlation"),
                    har_excess_vol      |-> Get(currentRisk, "har_excess_vol"),
                    composite_warning   |-> Get(currentRisk, "composite_warning"),
                    data_points         |-> Num(Len(displayData.a)),
                    risk_level          |-> Str(periodRiskLevel),
                    percentile          |->
                      Plus(Rat(1, 2), Over(OrElse(avgZScore, Num(0)), Num(6))),
                    relative_to_current |->
                      Minus(periodMean, OrElse(Get(currentRisk, "systemic_risk"), Num(0))),
                    timestamp           |-> Get(currentRisk, "timestamp") ])

(***************************************************************************)
(* constants.js and the components that read it                            *)
(***************************************************************************)
RISK_REGIMES ==
  [ RED    |-> [color |-> "text-red-400", border |-> "border-red-500",
                label |-> "CRISIS", threshold |-> Rat(1, 2)],
    YELLOW |-> [color |-> "text-yellow-400", border |-> "border-yellow-500",
                label |-> "FRAGILE", threshold |-> Num(0)],
    GREEN  |-> [color |-> "text-green-400", border |-> "border-green-500",
                label |-> "NORMAL", threshold |-> Num(-2)] ]

\* payload.find(p => p.dataKey === dataKey)?.value
PayloadValue(payload, dataKey) ==
  LET Found(p) == Get(p, "dataKey") = Str(dataKey)
      found == SelectSeq(payload.a, Found)
  IN  IF Len(found) = 0 THEN Undefined ELSE Get(found[1], "value")

\* CustomTooltip: null, or the regime it shows and that regime's label and
\* colour
CustomTooltip(props) ==
  LET payload == Get(props, "payload") IN
  IF ~Truthy(Get(props, "active")) \/ ~Truthy(payload) \/ Len(payload.a) = 0
    THEN JsNull
    ELSE LET srs    == OrElse(PayloadValue(payload, "systemic_risk_score"), Num(0))
             regime == IF AtLeast(srs, RISK_REGIMES.RED.threshold) THEN "RED"
                       ELSE IF GreaterThan(srs, RISK_REGIMES.YELLOW.threshold)
                         THEN "YELLOW"
                       ELSE "GREEN"
         IN  Obj([ regime |-> Str(regime),
                   label  |-> Str(RISK_REGIMES[regime].label),
                   color  |-> Str(RISK_REGIMES[regime].color) ])

\* TrafficLight: the loading placeholder, or the band it shows: the label,
\* the colour and the border of the style and the lamp
TrafficLight(props) ==
  LET regime == Get(props, "regime")
      style  == IF regime.t = "string" /\ regime.s \in DOMAIN RISK_REGIMES
                  THEN RISK_REGIMES[regime.s] ELSE RISK_REGIMES.GREEN
      lamp   == IF regime = Str("RED") THEN "bg-red-500"
                ELSE IF regime = Str("YELLOW") THEN "bg-yellow-500"
                ELSE "bg-green-500"
  IN  IF Truthy(Get(props, "isLoading"))
        THEN Obj([loading |-> Bool(TRUE)])
        ELSE Obj([ label  |-> Str(style.label),
                   color  |-> Str(style.color),
                   border |-> Str(style.border),
                   lamp   |-> Str(lamp) ])

\* the props the App renders the TrafficLight with
TrafficLightProps(st) ==
  LET periodMetrics == calculatePeriodMetrics(getDisplayData(st), CurrentRisk(st))
      hasData       == IsArray(st.riskHistory) /\ Len(st.riskHistory.a) > 0
  IN  Obj([ score      |-> Get(periodMetrics, "systemic_risk"),
            regime     |-> Get(periodMetrics, "risk_level"),
            isLoading  |-> Bool(st.isLoading /\ ~hasData),
            zScore     |-> Get(periodMetrics, "z_score"),
            percentile |-> Get(periodMetrics, "percentile") ])

(***************************************************************************)
(* State.                                                                  *)
(*   store            the riskStore                                        *)
(*   mounted          "no" before the App mounts, "yes" while it is        *)
(*                    mounted, "gone" after it unmounted                   *)
(*   daysRange        the range the hook was last rendered with            *)
(*   previousRangeRef previousRangeRef.current                             *)
(*   fetches          the calls of fetchRiskHistory that are suspended in  *)
(*                    apiService.getRiskHistory, one slot each             *)
(*   done             how the fetch that settled in the step just taken    *)
(*                    went                                                 *)
(*   sockets          the WebSocket objects and the reconnect timer each   *)
(*                    one's onclose set                                    *)
(*   socketRef        socketRef.current (0 is null)                        *)
(*   onMessageCallback whether useWebSocket was given an observer         *)
(*   lastMessage      the frame onmessage handled in the step just taken   *)
(*                    and what it passed to the observer                   *)
(*   call             a call of one of the store's or the utilities'       *)
(*                    functions from outside the hooks: the function, its  *)
(*                    argument and what it returned                        *)
(*   endpoint         the endpoint useWebSocket is given: '/ws/risk', or   *)
(*                    null when useRiskData is given useRealtime = false   *)
(*   location         window.location: the host name and the port of the   *)
(*                    page                                                 *)
(***************************************************************************)
VARIABLES store, mounted, daysRange, previousRangeRef, fetches, done,
          sockets, socketRef, onMessageCallback, lastMessage, call,
          endpoint, location

vars == <<store, mounted, daysRange, previousRangeRef, fetches, done,
          sockets, socketRef, onMessageCallback, lastMessage, call,
          endpoint, location>>

fetchVars == <<daysRange, previousRangeRef, fetches>>

streamVars == <<sockets, socketRef, onMessageCallback>>

Slots == 1..MaxFetches

IdleSlot ==
  [ pc       |-> "idle",      \* idle, awaiting (a request is out), backoff
    origin   |-> "",          \* range, initial or refresh: who called
    range    |-> Undefined,   \* the normalized range
    query    |-> QueryParams(Undefined),
    attempt  |-> 0,           \* the loop variable of fetchWithRetry
    requests |-> 0,           \* calls of fetch() so far
    log      |-> <<>>,        \* what each failed attempt threw
    delay    |-> 0,           \* the backoff being waited for
    elapsed  |-> 0,           \* seconds of it that have passed
    waits    |-> <<>> ]       \* the time waited before each retry

NoFetchYet ==
  [ result   |-> "",          \* resolved, or what threw: client or shape
    requests |-> 0,
    log      |-> <<>>,
    waits    |-> <<>>,
    body     |-> Undefined,   \* the body the last response decoded to
    returned |-> Undefined,   \* what fetchWithRetry returned
    clientError |-> JsNull,   \* what fetchWithRetry passed to setError
    message  |-> "" ]         \* the message of the error it threw

InFlight(fs) == {i \in Slots : fs[i].pc # "idle"}

NoCall ==
  [ fn     |-> "",          \* the function called
    arg    |-> Undefined,   \* its argument
    passes |-> 0,           \* how often it has been applied
    before |-> Undefined,   \* what the application before the last returned
    result |-> Undefined ]  \* what the last application returned

(***************************************************************************)
(* useRiskData.js: the hook                                                *)
(***************************************************************************)
normalizeRange(range) ==
  IF range.t \in {"null", "undefined"}
    THEN Range(Undefined, Undefined, Undefined)
  ELSE IF range.t = "number"
    THEN Range(range, Undefined, Undefined)
  ELSE Range(Get(range, "days"), Get(range, "startDate"), Get(range, "endDate"))

\* the comparison of the range effect; prev is previousRangeRef.current
RangeChanged(prev, currentRange) ==
  \/ ~Truthy(prev)
  \/ Get(prev, "days") # Get(currentRange, "days")
  \/ Get(prev, "startDate") # Get(currentRange, "startDate")
  \/ Get(prev, "endDate") # Get(currentRange, "endDate")

\* the guard of fetchRiskHistory: isLoading is the value the callback
\* captured when the component rendered
SkipsFetch(isLoading) == isLoading

\* fetchRiskHistory(rangeInput) up to its first suspension: the guard,
\* setLoading(true), then getRiskHistory up to the first call of fetch().
\* ctx carries the store and the slots through the calls of one handler;
\* full says that the model ran out of slots.
fetchRiskHistory(ctx, rangeInput, isLoading, origin) ==
  IF SkipsFetch(isLoading)
    THEN ctx
    ELSE
      LET range == normalizeRange(rangeInput)
          free  == Slots \ InFlight(ctx.fetches)
      IN
      IF free = {}
        THEN [ctx EXCEPT !.full = TRUE]
        ELSE
          LET i == CHOOSE k \in free : \A m \in free : k <= m
          IN  [ store   |-> setLoading(setLoading(ctx.store, TRUE), TRUE),
                fetches |-> [ctx.fetches EXCEPT ![i] =
                               [IdleSlot EXCEPT !.pc = "awaiting",
                                                !.origin = origin,
                                                !.range = range,
                                                !.query = QueryParams(range),
                                                !.requests = 1]],
                full    |-> ctx.full ]

Ctx == [store |-> store, fetches |-> fetches, full |-> FALSE]

\* the range effect (deps: daysRange, fetchRiskHistory)
RangeEffect(ctx, prev, range, isLoading) ==
  LET currentRange == normalizeRange(range) IN
  IF RangeChanged(prev, currentRange)
    THEN [ctx  |-> fetchRiskHistory(ctx, currentRange, isLoading, "range"),
          prev |-> currentRange]
    ELSE [ctx |-> ctx, prev |-> prev]

\* the initial-fetch effect (deps: none); riskHistory is the rendered value
InitialFetchEffect(ctx, riskHistory, range, isLoading) ==
  IF ~Truthy(riskHistory) \/ Len(riskHistory.a) = 0
    THEN fetchRiskHistory(ctx, range, isLoading, "initial")
    ELSE ctx


(***************************************************************************)
(* useWebSocket.js                                                         *)
(***************************************************************************)
Sockets == 1..MaxSockets

\* setTimeout(() => connect(), 5000), in seconds
ReconnectDelay == 5

NoSocket ==
  [ readyState |-> "NONE",   \* NONE (no such object), CONNECTING, OPEN,
                             \* CLOSING, CLOSED
    teardown   |-> FALSE,    \* close() was called on it by disconnect
    timer      |-> FALSE,    \* the timer its onclose set is pending
    delay      |-> 0,        \* the delay of that timer
    elapsed    |-> 0,        \* seconds of it that have passed
    opened     |-> FALSE,    \* it has been OPEN
    parent     |-> 0,        \* the socket whose timer created this one
    retried    |-> FALSE,    \* that socket was never OPEN
    late       |-> FALSE ]   \* created after disconnect had run

\* the frames the server can send: event.data parses to data, or does not
\* parse
Frames ==
  { [parses |-> FALSE, data |-> Undefined] }
  \cup
  { [parses |-> TRUE, data |-> d] :
      d \in { Obj([timestamp |-> Str("t1"), systemic_risk |-> Num(1)]),
              Obj([timestamp |-> Str("t2"), risk_level |-> Str("high")]),
              Obj([timestamp |-> Num(1700000000), systemic_risk |-> Num(2)]),
              Obj([timestamp |-> Str("t3"), error |-> Str("engine failure")]),
              Obj([timestamp |-> Str("")]),
              Obj([systemic_risk |-> Num(3)]),
              JsNull } }

NoMessage == [frame |-> [parses |-> FALSE, data |-> Undefined], handled |-> FALSE,
              observed |-> Undefined]

\* the test of onmessage: data && data.timestamp && !data.error
AcceptsMessage(data) ==
  Truthy(data) /\ Truthy(Get(data, "timestamp")) /\ ~Truthy(Get(data, "error"))

\* a socket object nothing can reach any more: closed, its close event
\* handled, its timer fired, and not in socketRef
Collect(socks, ref) ==
  [k \in Sockets |->
     IF socks[k].readyState = "CLOSED" /\ ~socks[k].timer /\ k # ref
       THEN NoSocket ELSE socks[k]]

\* the page of the Vite development server, and a page served from the
\* default port
DevServer == [hostname |-> "localhost", port |-> "5173"]

Deployed == [hostname |-> "risk.example.com", port |-> ""]

\* new WebSocket(`${protocol}//${window.location.host}${endpoint}`) parses
\* the URL (null is the text "null" in the template literal): text that
\* does not begin a path, a query or a fragment continues the host; after a
\* port only digits parse, after a host name letters do
UrlParses(loc, e) ==
  LET c == Chars(IF e.t = "null" THEN "null" ELSE e.s) IN
  \/ Len(c) = 0
  \/ c[1] \in {"/", "?", "#"}
  \/ IF loc.port # "" THEN \A k \in 1..Len(c) : IsDigit(c[k])
                      ELSE \A k \in 1..Len(c) : c[k] \notin {":", "@", " "}

\* the guard of connect
AlreadyOpen(socks, ref) == ref # 0 /\ socks[ref].readyState = "OPEN"

\* connect(): net carries the sockets and socketRef through the handler;
\* parent is the socket whose timer called connect (0: the mount effect).
\* The URL is well formed, so new WebSocket does not throw.
connect(net, parent, isLate) ==
  IF AlreadyOpen(net.sockets, net.ref)
    THEN net
  ELSE IF ~UrlParses(location, endpoint)
    THEN [net EXCEPT !.threw = TRUE]
    ELSE
      LET free == {k \in Sockets : net.sockets[k].readyState = "NONE"} IN
      IF free = {}
        THEN [net EXCEPT !.full = TRUE]
        ELSE
          LET j == CHOOSE k \in free : \A m \in free : k <= m
          IN  [ sockets |-> [net.sockets EXCEPT ![j] =
                               [NoSocket EXCEPT !.readyState = "CONNECTING",
                                                !.parent = parent,
                                                !.retried = parent # 0 /\
                                                            ~net.sockets[parent].opened,
                                                !.late = isLate]],
                ref     |-> j,
                full    |-> net.full,
                threw   |-> net.threw ]

\* disconnect()
disconnect(net) ==
  IF net.ref # 0
    THEN [ sockets |-> [net.sockets EXCEPT ![net.ref] =
                          IF @.readyState \in {"CONNECTING", "OPEN"}
                            THEN [@ EXCEPT !.readyState = "CLOSING", !.teardown = TRUE]
                            ELSE @],
           ref     |-> 0,
           full    |-> net.full,
           threw   |-> net.threw ]
    ELSE net

\* onclose reconnecting only a socket that had been open
oncloseOnlyAfterOpen(socks, j) ==
  [socks EXCEPT ![j] = [@ EXCEPT !.readyState = "CLOSED", !.timer = socks[j].opened,
                                 !.delay = ReconnectDelay, !.elapsed = 0]]

\* the onclose handler of socket j: it sets the reconnect timer
onclose(socks, j) ==
  [socks EXCEPT ![j] = [@ EXCEPT !.readyState = "CLOSED", !.timer = TRUE,
                                 !.delay = ReconnectDelay, !.elapsed = 0]]

\* the onerror handler
onerror(st) == setError(st, Str("WebSocket connection error"))

Net == [sockets |-> sockets, ref |-> socketRef, full |-> FALSE, threw |-> FALSE]

\* the catch block of connect
connectCatch(st, net) ==
  IF net.threw THEN setError(st, Str("Failed to establish WebSocket connection"))
               ELSE st


(***************************************************************************)
(* The continuations of a fetch once fetchWithRetry has settled.           *)
(***************************************************************************)
\* fetchWithRetry on its last failed attempt: getStore().setError, throw
fetchWithRetryGivesUp(st, message) == setError(st, Str(message))

\* the finally block of getRiskHistory
getRiskHistoryFinally(st) == setLoading(st, FALSE)

\* fetchRiskHistory after the await: api is what getRiskHistory returned or
\* threw
fetchRiskHistoryResumes(st, api) ==
  LET after ==
        IF api.thrown # ""
          THEN setError(st, Str(api.message))
        ELSE IF Truthy(api.value) /\ Truthy(Get(api.value, "data"))
                  /\ IsArray(Get(api.value, "data"))
          THEN setError(setRiskData(st, api.value), JsNull)
        ELSE setError(st, Str("Invalid response format from API"))
  IN  setLoading(after, FALSE)

\* refreshData after its await of fetchRiskHistory: the finally block
refreshDataResumes(st) == setLoading(st, FALSE)

\* the whole chain of continuations, innermost first
Settle(st, slot, client) ==
  LET st1 == IF client.thrown # "" THEN fetchWithRetryGivesUp(st, client.message) ELSE st
      api == IF client.thrown # ""
               THEN [thrown |-> "client", message |-> client.message, value |-> Undefined]
               ELSE NormalizeResponse(client.data)
      st2 == fetchRiskHistoryResumes(getRiskHistoryFinally(st1), api)
  IN  IF slot.origin = "refresh" THEN refreshDataResumes(st2) ELSE st2

(***************************************************************************)
(* Actions.                                                                *)
(***************************************************************************)
Init ==
  /\ store = InitialStore
  /\ mounted = "no"
  /\ daysRange = Num(DefaultDays)
  /\ previousRangeRef = JsNull
  /\ fetches = [i \in Slots |-> IdleSlot]
  /\ done = NoFetchYet
  /\ sockets = [k \in Sockets |-> NoSocket]
  /\ socketRef = 0
  /\ onMessageCallback = FALSE
  /\ lastMessage = NoMessage
  /\ call = NoCall
  /\ endpoint = Str("/ws/risk")
  /\ location = DevServer

\* The App mounts: the component renders with the store as it is, then its
\* effects run in the order of the hooks, all with the values of that one
\* render: the effect of useWebSocket, the range effect, the initial-fetch
\* effect.  callback says whether useWebSocket is given an observer
\* (useRiskData gives it none).
Mount(callback) ==
  /\ mounted = "no"
  /\ onMessageCallback' = callback
  /\ LET isLoading   == store.isLoading
         riskHistory == store.riskHistory
         net  == connect(Net, 0, FALSE)
         eff  == RangeEffect([Ctx EXCEPT !.store = connectCatch(store, net)],
                             previousRangeRef, daysRange, isLoading)
         ctx  == InitialFetchEffect(eff.ctx, riskHistory, daysRange, isLoading)
     IN  /\ ~net.full /\ ~ctx.full
         /\ sockets' = net.sockets
         /\ socketRef' = net.ref
         /\ previousRangeRef' = eff.prev
         /\ store' = ctx.store
         /\ fetches' = ctx.fetches
  /\ mounted' = "yes"
  /\ lastMessage' = NoMessage
  /\ UNCHANGED <<call, endpoint, location>>
  /\ done' = NoFetchYet
  /\ UNCHANGED daysRange

\* The user picks a range (slider, preset, Apply Date Range): the hook is
\* rendered with it and the range effect runs.  Setting a number state to
\* the number it already holds does not render.
ChangeRange(range) ==
  /\ mounted = "yes"
  /\ range.t = "number" => range # daysRange
  /\ LET eff == RangeEffect(Ctx, previousRangeRef, range, store.isLoading)
     IN  /\ ~eff.ctx.full
         /\ previousRangeRef' = eff.prev
         /\ store' = eff.ctx.store
         /\ fetches' = eff.ctx.fetches
  /\ daysRange' = range
  /\ lastMessage' = NoMessage
  /\ UNCHANGED <<call, endpoint, location>>
  /\ done' = NoFetchYet
  /\ UNCHANGED <<mounted, streamVars>>

\* A click on Refresh or Force Refresh (disabled while isLoading) or on
\* Retry (shown while error is set): refreshData.  When fetchRiskHistory
\* returns at its guard, refreshData resumes at once.
refreshData ==
  /\ mounted = "yes"
  /\ ~store.isLoading \/ Truthy(store.error)
  /\ LET ctx == fetchRiskHistory([Ctx EXCEPT !.store = setLoading(store, TRUE)],
                                 daysRange, store.isLoading, "refresh")
     IN  /\ ~ctx.full
         /\ fetches' = ctx.fetches
         /\ store' = IF SkipsFetch(store.isLoading)
                       THEN refreshDataResumes(ctx.store)
                       ELSE ctx.store
  /\ lastMessage' = NoMessage
  /\ UNCHANGED <<call, endpoint, location>>
  /\ done' = NoFetchYet
  /\ UNCHANGED <<mounted, daysRange, previousRangeRef, streamVars>>

\* done, for a fetch whose fetchWithRetry settled with client
Settled(st, slot, client, body) ==
  [ result   |-> IF client.thrown # "" THEN "client"
                 ELSE IF NormalizeResponse(client.data).thrown # "" THEN "shape"
                 ELSE "resolved",
    requests |-> slot.requests,
    log      |-> IF client.thrown # "" THEN Append(slot.log, client.thrown) ELSE slot.log,
    waits    |-> slot.waits,
    body     |-> body,
    returned |-> client.data,
    clientError |-> IF client.thrown # ""
                      THEN fetchWithRetryGivesUp(st, client.message).error
                      ELSE JsNull,
    message  |-> client.message ]

\* The request of fetch i ends in resp.  Either the loop of fetchWithRetry
\* starts a backoff wait, or fetchWithRetry settles and the awaiting callers
\* resume one after the other.
Respond(i, resp) ==
  /\ fetches[i].pc = "awaiting"
  /\ LET slot   == fetches[i]
         client == TryAttempt(resp)
     IN  IF client.thrown # "" /\ ~LastAttempt(slot.attempt)
           THEN /\ fetches' = [fetches EXCEPT ![i] =
                                 [slot EXCEPT !.pc = "backoff",
                                              !.log = Append(@, client.thrown),
                                              !.delay = BackoffDelay(slot.attempt),
                                              !.elapsed = 0]]
                /\ done' = NoFetchYet
                /\ UNCHANGED store
           ELSE /\ fetches' = [fetches EXCEPT ![i] = IdleSlot]
                /\ store' = Settle(store, slot, client)
                /\ done' = Settled(store, slot, client, resp.body)
  /\ lastMessage' = NoMessage
  /\ UNCHANGED <<call, endpoint, location>>
  /\ UNCHANGED <<mounted, daysRange, previousRangeRef, streamVars>>

\* The backoff timer of fetch i fires: attempt++, and while attempt < retries
\* fetch() is called again; otherwise the loop ends and fetchWithRetry
\* returns undefined.
Retry(i) ==
  /\ fetches[i].pc = "backoff"
  /\ fetches[i].elapsed >= fetches[i].delay
  /\ LET slot == [fetches[i] EXCEPT !.attempt = @ + 1,
                                    !.waits = Append(@, fetches[i].elapsed)]
     IN  IF slot.attempt < Retries
           THEN /\ fetches' = [fetches EXCEPT ![i] =
                                 [slot EXCEPT !.pc = "awaiting", !.requests = @ + 1]]
                /\ done' = NoFetchYet
                /\ UNCHANGED store
           ELSE LET client == [thrown |-> "", message |-> "", data |-> Undefined]
                IN  /\ fetches' = [fetches EXCEPT ![i] = IdleSlot]
                    /\ store' = Settle(store, slot, client)
                    /\ done' = Settled(store, slot, client, Undefined)
  /\ lastMessage' = NoMessage
  /\ UNCHANGED <<call, endpoint, location>>
  /\ UNCHANGED <<mounted, daysRange, previousRangeRef, streamVars>>

\* One second passes for every pending timer.
Tick ==
  /\ \/ \E i \in Slots : fetches[i].pc = "backoff" /\ fetches[i].elapsed < fetches[i].delay
     \/ \E k \in Sockets : sockets[k].timer /\ sockets[k].elapsed < sockets[k].delay
  /\ fetches' = [i \in Slots |->
                   IF fetches[i].pc = "backoff" /\ fetches[i].elapsed < fetches[i].delay
                     THEN [fetches[i] EXCEPT !.elapsed = @ + 1] ELSE fetches[i]]
  /\ sockets' = [k \in Sockets |->
                   IF sockets[k].timer /\ sockets[k].elapsed < sockets[k].delay
                     THEN [sockets[k] EXCEPT !.elapsed = @ + 1] ELSE sockets[k]]
  /\ lastMessage' = NoMessage
  /\ UNCHANGED <<call, endpoint, location>>
  /\ done' = NoFetchYet
  /\ UNCHANGED <<store, mounted, daysRange, previousRangeRef, socketRef,
                 onMessageCallback>>


\* Socket j is established: its onopen handler runs.
onopen(j) ==
  /\ sockets[j].readyState = "CONNECTING"
  /\ sockets' = [sockets EXCEPT ![j].readyState = "OPEN", ![j].opened = TRUE]
  /\ store' = setError(store, JsNull)
  /\ lastMessage' = NoMessage
  /\ UNCHANGED <<call, endpoint, location>>
  /\ done' = NoFetchYet
  /\ UNCHANGED <<mounted, fetchVars, socketRef, onMessageCallback>>

\* what onmessage does to the store for a frame
HandleMessage(st, frame) ==
  IF ~frame.parses
    THEN setError(st, Str("Failed to process WebSocket message"))
    ELSE IF AcceptsMessage(frame.data) THEN setRealtimeData(st, frame.data) ELSE st

\* what onmessage passes to onMessageCallback (undefined: it is not called)
Observed(frame, callback) ==
  IF frame.parses /\ AcceptsMessage(frame.data) /\ callback
    THEN frame.data ELSE Undefined

\* A frame arrives on the open socket j: its onmessage handler runs.
onmessage(j, frame) ==
  /\ sockets[j].readyState = "OPEN"
  /\ store' = HandleMessage(store, frame)
  /\ lastMessage' = [frame |-> frame, handled |-> TRUE,
                     observed |-> Observed(frame, onMessageCallback)]
  /\ done' = NoFetchYet
  /\ UNCHANGED <<call, endpoint, location>>
  /\ UNCHANGED <<mounted, fetchVars, streamVars>>

\* Socket j fails to be established: the error event, then the close event.
ConnectionFails(j) ==
  /\ sockets[j].readyState = "CONNECTING"
  /\ store' = onerror(store)
  /\ sockets' = Collect(onclose(sockets, j), socketRef)
  /\ lastMessage' = NoMessage
  /\ UNCHANGED <<call, endpoint, location>>
  /\ done' = NoFetchYet
  /\ UNCHANGED <<mounted, fetchVars, socketRef, onMessageCallback>>

\* The open socket j is closed by the server (a close event) or lost to a
\* network fault (an error event, then a close event).
ConnectionCloses(j, fault) ==
  /\ sockets[j].readyState = "OPEN"
  /\ store' = IF fault THEN onerror(store) ELSE store
  /\ sockets' = Collect(onclose(sockets, j), socketRef)
  /\ lastMessage' = NoMessage
  /\ UNCHANGED <<call, endpoint, location>>
  /\ done' = NoFetchYet
  /\ UNCHANGED <<mounted, fetchVars, socketRef, onMessageCallback>>

\* The close() that disconnect called on socket j completes: the close
\* event, after an error event when the connection was given up unopened or
\* the closing handshake failed.
CloseCompletes(j, fault) ==
  /\ sockets[j].readyState = "CLOSING"
  /\ store' = IF fault THEN onerror(store) ELSE store
  /\ sockets' = Collect(onclose(sockets, j), socketRef)
  /\ lastMessage' = NoMessage
  /\ UNCHANGED <<call, endpoint, location>>
  /\ done' = NoFetchYet
  /\ UNCHANGED <<mounted, fetchVars, socketRef, onMessageCallback>>

\* The timer that the onclose of socket k set fires: connect().
ReconnectTimerFires(k) ==
  /\ sockets[k].timer
  /\ sockets[k].elapsed >= sockets[k].delay
  /\ LET fired == [Net EXCEPT !.sockets = [sockets EXCEPT ![k].timer = FALSE]]
         net   == connect(fired, k, mounted = "gone")
     IN  /\ ~net.full
         /\ sockets' = Collect(net.sockets, net.ref)
         /\ socketRef' = net.ref
         /\ store' = connectCatch(store, net)
  /\ lastMessage' = NoMessage
  /\ UNCHANGED <<call, endpoint, location>>
  /\ done' = NoFetchYet
  /\ UNCHANGED <<mounted, fetchVars, onMessageCallback>>

\* The hook is rendered with another observer: connect is created anew, so
\* the effect of useWebSocket runs again, first its cleanup, disconnect(),
\* then connect().
DependencyChanges(callback) ==
  /\ mounted = "yes"
  /\ callback # onMessageCallback
  /\ onMessageCallback' = callback
  /\ LET net == connect(disconnect(Net), 0, FALSE)
     IN  /\ ~net.full
         /\ sockets' = Collect(net.sockets, net.ref)
         /\ socketRef' = net.ref
         /\ store' = connectCatch(store, net)
  /\ lastMessage' = NoMessage
  /\ UNCHANGED <<call, endpoint, location>>
  /\ done' = NoFetchYet
  /\ UNCHANGED <<mounted, fetchVars>>

\* The App unmounts: the cleanup of the effect of useWebSocket runs
\* disconnect().
Unmount ==
  /\ mounted = "yes"
  /\ mounted' = "gone"
  /\ LET net == disconnect(Net)
     IN  /\ sockets' = Collect(net.sockets, net.ref)
         /\ socketRef' = net.ref
  /\ lastMessage' = NoMessage
  /\ UNCHANGED <<call, endpoint, location>>
  /\ done' = NoFetchYet
  /\ UNCHANGED <<store, fetchVars, onMessageCallback>>

(***************************************************************************)
(* Calls of the store's and the utilities' functions from outside the      *)
(* hooks: a test or a component calls the function once with an argument.  *)
(***************************************************************************)
\* a call that has not been made yet
Call(fn, arg) == [NoCall EXCEPT !.fn = fn, !.arg = arg]

\* the stores setRiskData is called on: fresh, after a fetch of either
\* shape, after a stream message, with an error left by a failed fetch
StoreStates ==
  LET loaded == setRiskData(InitialStore, BodyEnhanced) IN
  { InitialStore,
    loaded,
    setRiskData(InitialStore, BodyLegacy),
    setRealtimeData(loaded, Obj([timestamp |-> Str("t1"), systemic_risk |-> Num(1)])),
    setError(loaded, Str("Failed to fetch")) }

SetRiskDataCalls ==
  { Call("setRiskData", data) :
      data \in Bodies \cup {JsNull, Undefined, Str("pending"),
                             Obj([data |-> Str("none")]),
                             Obj([data |-> Arr(<<>>)]), Arr(<<>>)} }

\* useRiskStore.getState().setRiskData(data)
CallSetRiskData ==
  /\ call.fn = "setRiskData"
  /\ call.passes = 0
  /\ store' = setRiskData(store, call.arg)
  /\ call' = [call EXCEPT !.passes = 1]
  /\ UNCHANGED <<mounted, fetchVars, done, streamVars, lastMessage,
                 endpoint, location>>

\* the k-th day of the observation lists
Day(k) ==
  CASE k = 1 -> "2024-01-01"
    [] k = 2 -> "2024-01-02"
    [] k = 3 -> "2024-01-03"
    [] k = 4 -> "2024-01-04"
    [] OTHER -> "2024-01-05"

\* what an observation carries as its risk score: the field and the value
Scores ==
  [field : {"systemic_risk"}, value : 0..MaxRisk]
    \cup [field : {"systemic_risk_score"}, value : {MaxRisk}]

\* the observation of day k with the score sc
Scored(k, sc) ==
  IF sc.field = "systemic_risk"
    THEN Obj([date |-> Str(Day(k)), systemic_risk |-> Num(sc.value)])
    ELSE Obj([date |-> Str(Day(k)), systemic_risk_score |-> Num(sc.value)])

\* the observation lists of up to MaxLen days
ObservationLists ==
  UNION { { Arr([k \in 1..len |-> Scored(k, q[k])]) : q \in [1..len -> Scores] } :
            len \in 0..MaxLen }

\* the object with the fields of full that are not undefined
Present(full) ==
  Obj([f \in {g \in DOMAIN full : full[g].t # "undefined"} |-> full[f]])

\* the snapshots getWarningStatus is called on: each signal absent, below,
\* at and above its threshold, the flag absent, true and false
WarningCalls ==
  { Call("getWarningStatus",
         Present([ har_excess_vol    |-> har,
                   dcc_correlation   |-> dcc,
                   systemic_risk     |-> sys[1],
                   systemic_mean     |-> sys[2],
                   systemic_std      |-> sys[3],
                   composite_warning |-> flag ])) :
      har  \in {Undefined, Rat(3, 2), Num(2), Rat(5, 2)},
      dcc  \in {Undefined, Rat(1, 2), Rat(95, 100), Rat(96, 100)},
      sys  \in { <<Undefined, Undefined, Undefined>>,
                 <<Num(0), Num(0), Num(1)>>,
                 <<Num(1), Num(0), Num(1)>>,
                 <<Num(2), Rat(1, 2), Num(1)>>,
                 <<Num(2), Undefined, Undefined>> },
      flag \in {Undefined, Bool(TRUE), Bool(FALSE)} }

\* the records getDataQualityScore is called on: each core field absent,
\* valid and invalid; the first three signals each absent, valid and
\* invalid, the last three absent, valid or invalid together
QualityCalls ==
  { Call("getDataQualityScore", data) : data \in {JsNull, Undefined, Str("raw")} }
  \cup
  { Call("getDataQualityScore",
         Present([ systemic_risk        |-> risk,
                   risk_level           |-> level,
                   timestamp            |-> time,
                   pca_component        |-> pca,
                   credit_component     |-> credit,
                   quantile_signal      |-> quantile,
                   dcc_correlation      |-> rest,
                   har_excess_vol_z     |-> rest,
                   composite_risk_score |-> rest ])) :
      risk     \in {Undefined, Num(1), NaN},
      level    \in {Undefined, Str("low"), Str("RED")},
      time     \in {Undefined, Str("2024-01-01"), Str("")},
      pca      \in {Undefined, Rat(1, 2), JsNull},
      credit   \in {Undefined, Rat(1, 2), Str("n/a")},
      quantile \in {Undefined, Num(0), NaN},
      rest     \in {Undefined, Num(1), JsNull} }

\* the values sanitizeRiskData is called on: values that are no objects, an
\* array, and records whose numeric fields have more than 6 decimals, lie
\* half way between two roundings, are negative, are no numbers, and whose
\* boolean fields are of other types
SanitizeCalls ==
  { Call("sanitizeRiskData", data) :
      data \in {JsNull, Undefined, Num(3), Str("raw"), Arr(<<Rat(1, 3), Str("raw")>>)} }
  \cup
  { Call("sanitizeRiskData",
         Present([ systemic_risk   |-> risk,
                   dcc_correlation |-> dcc,
                   is_warning      |-> warning,
                   timestamp       |-> time ])) :
      risk    \in { Undefined, JsNull, NaN, Str("n/a"), Num(MaxRisk),
                    Rat(1234567, 10000000), Rat(5, 10000000), Rat(-5, 10000000),
                    Rat(4, 10000000), Rat(-15, 10000000), Rat(1, 3), Rat(-2, 3) },
      dcc     \in {Undefined, Rat(95, 100), Rat(1, 7)},
      warning \in {Undefined, Bool(TRUE), Bool(FALSE), Num(1), Str(""), JsNull},
      time    \in {Undefined, Str("t1")} }

SummaryCalls == { Call("generateSummaryFromArray", data) : data \in ObservationLists }

\* the windows and snapshots calculatePeriodMetrics is called on: the
\* observation lists and two lists whose rows carry a z-score, without and
\* with a snapshot that carries a systemic risk value
PeriodCalls ==
  { Call("calculatePeriodMetrics", Obj([riskHistory |-> data, currentMetrics |-> cur])) :
      data \in ObservationLists \cup
               { Arr(<<Obj([date |-> Str(Day(1)), systemic_risk |-> Num(0),
                            z_score |-> Num(1)]),
                       Obj([date |-> Str(Day(2)), systemic_risk |-> Num(2),
                            z_score |-> Num(2)])>>),
                 Arr(<<Obj([date |-> Str(Day(1)), systemic_risk |-> Num(1),
                            z_score |-> Num(-1)]),
                       Scored(2, [field |-> "systemic_risk", value |-> 2])>>) },
      cur \in { Obj(NoFields),
                Obj([timestamp |-> Str("t1"), systemic_risk |-> Num(1)]) } }

\* the payloads the chart gives the tooltip: inactive, empty, without a
\* systemic risk score, and with a score below, at and above either
\* threshold
TooltipCalls ==
  { Call("CustomTooltip", Obj([active |-> Bool(FALSE), payload |-> Arr(<<>>)])),
    Call("CustomTooltip", Obj([active |-> Bool(TRUE), payload |-> Arr(<<>>)])),
    Call("CustomTooltip", Obj([active |-> Bool(TRUE)])),
    Call("CustomTooltip",
         Obj([active  |-> Bool(TRUE),
              payload |-> Arr(<<Obj([dataKey |-> Str("pca_signal_score"),
                                     value |-> Num(1)])>>)])) }
  \cup
  { Call("CustomTooltip",
         Obj([active  |-> Bool(TRUE),
              payload |-> Arr(<<Obj([dataKey |-> Str("pca_signal_score"),
                                     value |-> Num(1)]),
                                Obj([dataKey |-> Str("systemic_risk_score"),
                                     value |-> srs])>>)])) :
      srs \in { Num(-1), Rat(-1, 100), Num(0), Rat(1, 100), Rat(49, 100),
                Rat(1, 2), Rat(51, 100), Num(MaxRisk) } }

\* the props the traffic light is rendered with: every regime value with a
\* score, loading or not, no regime at all, and the props the App passes for
\* the period metrics of every observation list
TrafficLightCalls ==
  { Call("TrafficLight",
         Obj([score |-> Num(1), regime |-> Str(regime), isLoading |-> Bool(loading)])) :
      regime \in {"high", "medium", "low", "RED", "YELLOW", "GREEN"},
      loading \in BOOLEAN }
  \cup
  { Call("TrafficLight", Obj([score |-> Num(1), isLoading |-> Bool(FALSE)])) }
  \cup
  { Call("TrafficLight",
         TrafficLightProps([InitialStore EXCEPT !.riskHistory = data])) :
      data \in ObservationLists }

\* apiService._generateSummaryFromArray(data)
CallGenerateSummaryFromArray ==
  /\ call.fn = "generateSummaryFromArray"
  /\ call.passes = 0
  /\ call' = [call EXCEPT !.passes = 1, !.result = generateSummaryFromArray(call.arg)]
  /\ UNCHANGED <<store, mounted, fetchVars, done, streamVars, lastMessage,
                 endpoint, location>>

\* useRiskStore.getState().getWarningStatus()
CallGetWarningStatus ==
  /\ call.fn = "getWarningStatus"
  /\ call.passes = 0
  /\ call' = [call EXCEPT !.passes = 1, !.result = getWarningStatus(store)]
  /\ UNCHANGED <<store, mounted, fetchVars, done, streamVars, lastMessage,
                 endpoint, location>>

\* getDataQualityScore(data)
CallGetDataQualityScore ==
  /\ call.fn = "getDataQualityScore"
  /\ call.passes = 0
  /\ call' = [call EXCEPT !.passes = 1, !.result = getDataQualityScore(call.arg)]
  /\ UNCHANGED <<store, mounted, fetchVars, done, streamVars, lastMessage,
                 endpoint, location>>

\* sanitizeRiskData(data), and sanitizeRiskData of what it returned
CallSanitizeRiskData ==
  /\ call.fn = "sanitizeRiskData"
  /\ call.passes < 2
  /\ call' = [call EXCEPT !.passes = @ + 1,
                          !.before = call.result,
                          !.result = sanitizeRiskData(IF call.passes = 0 THEN call.arg
                                                                        ELSE call.result)]
  /\ UNCHANGED <<store, mounted, fetchVars, done, streamVars, lastMessage,
                 endpoint, location>>

\* The App renders: calculatePeriodMetrics() on what the hook returns.
CallCalculatePeriodMetrics ==
  /\ call.fn = "calculatePeriodMetrics"
  /\ call.passes = 0
  /\ call' = [call EXCEPT !.passes = 1,
                          !.result = calculatePeriodMetrics(getDisplayData(store),
                                                            CurrentRisk(store))]
  /\ UNCHANGED <<store, mounted, fetchVars, done, streamVars, lastMessage,
                 endpoint, location>>

\* <CustomTooltip active payload label />
CallCustomTooltip ==
  /\ call.fn = "CustomTooltip"
  /\ call.passes = 0
  /\ call' = [call EXCEPT !.passes = 1, !.result = CustomTooltip(call.arg)]
  /\ UNCHANGED <<store, mounted, fetchVars, done, streamVars, lastMessage,
                 endpoint, location>>

\* <TrafficLight score regime isLoading zScore percentile />
CallTrafficLight ==
  /\ call.fn = "TrafficLight"
  /\ call.passes = 0
  /\ call' = [call EXCEPT !.passes = 1, !.result = TrafficLight(call.arg)]
  /\ UNCHANGED <<store, mounted, fetchVars, done, streamVars, lastMessage,
                 endpoint, location>>

(***************************************************************************)
(* Specifications.  Each one runs the whole program; they differ in the    *)
(* inputs the environment draws from and in which of the environment's     *)
(* events occur.                                                           *)
(***************************************************************************)
\* The range coordinator: every range input; each request is answered at
\* once by a usable body or by one no shape matches.
CoordinatorResponses ==
  {r \in Responses : r.ok /\ r.parses /\ r.body \in {BodyEnhanced, BodyEmptyObject}}

CoordinatorNext ==
  \/ Mount(FALSE)
  \/ \E range \in RangeInputs : ChangeRange(range)
  \/ refreshData
  \/ \E i \in Slots, resp \in CoordinatorResponses : Respond(i, resp)

CoordinatorSpec == Init /\ [][CoordinatorNext]_vars

\* The fetch client: the fetches of the mount, every response.
RetryNext ==
  \/ Mount(FALSE)
  \/ \E i \in Slots, resp \in Responses : Respond(i, resp)
  \/ \E i \in Slots : Retry(i)
  \/ Tick

RetrySpec == Init /\ [][RetryNext]_vars

\* The stream client: every frame and socket event; requests stay
\* unanswered.
StreamNext ==
  \/ \E callback \in BOOLEAN : Mount(callback)
  \/ Tick
  \/ \E j \in Sockets : onopen(j)
  \/ \E j \in Sockets, frame \in Frames : onmessage(j, frame)
  \/ \E j \in Sockets : ConnectionFails(j)
  \/ \E j \in Sockets, fault \in BOOLEAN : ConnectionCloses(j, fault)
  \/ \E j \in Sockets, fault \in BOOLEAN : CloseCompletes(j, fault)
  \/ \E k \in Sockets : ReconnectTimerFires(k)
  \/ Unmount

StreamSpec == Init /\ [][StreamNext]_vars

\* Timers fire and time passes: the event loop runs a due timer, and a
\* socket that is connecting or closing ends up open or closed.
StreamLiveSpec ==
  /\ StreamSpec
  /\ WF_vars(Tick)
  /\ WF_vars(\E k \in Sockets : ReconnectTimerFires(k))

\* The stream client when its effect runs again: renders with another
\* observer and the socket events, without frames, faults and the unmount.
RerunNext ==
  \/ Mount(FALSE)
  \/ \E callback \in BOOLEAN : DependencyChanges(callback)
  \/ Tick
  \/ \E j \in Sockets : onopen(j)
  \/ \E j \in Sockets : ConnectionFails(j)
  \/ \E j \in Sockets : ConnectionCloses(j, FALSE)
  \/ \E j \in Sockets : CloseCompletes(j, FALSE)
  \/ \E k \in Sockets : ReconnectTimerFires(k)

RerunSpec == Init /\ [][RerunNext]_vars

\* Realtime disabled: useRiskData(daysRange, false) gives useWebSocket the
\* endpoint null, on a page of the development server or of a deployment.
\* No server answers at a host name that ends in "null", so no socket opens.
RealtimeOffInit ==
  /\ store = InitialStore
  /\ mounted = "no"
  /\ daysRange = Num(DefaultDays)
  /\ previousRangeRef = JsNull
  /\ fetches = [i \in Slots |-> IdleSlot]
  /\ done = NoFetchYet
  /\ sockets = [k \in Sockets |-> NoSocket]
  /\ socketRef = 0
  /\ onMessageCallback = FALSE
  /\ lastMessage = NoMessage
  /\ call = NoCall
  /\ endpoint = JsNull
  /\ location \in {DevServer, Deployed}

RealtimeOffNext ==
  \/ Mount(FALSE)
  \/ \E range \in {Num(DefaultDays), Num(90)} : ChangeRange(range)
  \/ refreshData
  \/ \E i \in Slots, resp \in CoordinatorResponses : Respond(i, resp)
  \/ Tick
  \/ \E j \in Sockets : ConnectionFails(j)
  \/ \E k \in Sockets : ReconnectTimerFires(k)
  \/ Unmount

RealtimeOffSpec == RealtimeOffInit /\ [][RealtimeOffNext]_vars

\* One session: the fetches of the mount and of the Refresh and Retry
\* buttons together with the stream; each request is answered at once.
SessionFrames ==
  {frame \in Frames :
     \/ ~frame.parses
     \/ Get(frame.data, "timestamp") = Str("t1")
     \/ Get(frame.data, "timestamp") = Str("t3")}

\* the answers of a session: those of the coordinator and a history listed
\* newest first
SessionResponses ==
  CoordinatorResponses
    \cup {[rejects |-> FALSE, ok |-> TRUE, status |-> 200, parses |-> TRUE,
           body |-> BodyNewestFirst]}

SessionNext ==
  \/ Mount(FALSE)
  \/ refreshData
  \/ \E i \in Slots, resp \in SessionResponses : Respond(i, resp)
  \/ Tick
  \/ \E j \in Sockets : onopen(j)
  \/ \E j \in Sockets, frame \in SessionFrames : onmessage(j, frame)
  \/ \E j \in Sockets, fault \in BOOLEAN : ConnectionCloses(j, fault)
  \/ \E k \in Sockets : ReconnectTimerFires(k)

SessionSpec == Init /\ [][SessionNext]_vars

\* The functions called from outside the hooks, each on every argument of
\* a bounded set.
FunctionCalls ==
  SetRiskDataCalls \cup SummaryCalls \cup PeriodCalls \cup WarningCalls
    \cup QualityCalls \cup SanitizeCalls \cup TooltipCalls \cup TrafficLightCalls

FunctionInit ==
  /\ call \in FunctionCalls
  /\ store \in CASE call.fn = "setRiskData" -> StoreStates
                  [] call.fn = "calculatePeriodMetrics" ->
                       {[InitialStore EXCEPT
                           !.riskHistory = Get(call.arg, "riskHistory"),
                           !.currentMetrics = Get(call.arg, "currentMetrics")]}
                  [] call.fn = "getWarningStatus" ->
                       {setRealtimeData(InitialStore, call.arg)}
                  [] OTHER -> {InitialStore}
  /\ mounted = "no"
  /\ daysRange = Num(DefaultDays)
  /\ previousRangeRef = JsNull
  /\ fetches = [i \in Slots |-> IdleSlot]
  /\ done = NoFetchYet
  /\ sockets = [k \in Sockets |-> NoSocket]
  /\ socketRef = 0
  /\ onMessageCallback = FALSE
  /\ lastMessage = NoMessage
  /\ endpoint = Str("/ws/risk")
  /\ location = DevServer

FunctionNext ==
  \/ CallSetRiskData
  \/ CallGenerateSummaryFromArray
  \/ CallCalculatePeriodMetrics
  \/ CallGetWarningStatus
  \/ CallGetDataQualityScore
  \/ CallSanitizeRiskData
  \/ CallCustomTooltip
  \/ CallTrafficLight

FunctionSpec == FunctionInit /\ [][FunctionNext]_vars


(***************************************************************************)
(* Properties.                                                             *)
(***************************************************************************)
TransportFailures == {"fetch", "status"}

OnlyTransportFailures(log) == \A k \in 1..Len(log) : log[k] \in TransportFailures

\* C1: at most one history request is in flight at any time (from the call
\* of fetch() to the settling of fetchWithRetry, backoff waits included).
C1_AtMostOneInFlight == Cardinality(InFlight(fetches)) <= 1

\* the fetches the range effect starts in a step
StartedByRangeEffect ==
  {i \in Slots : fetches[i].pc = "idle" /\ fetches'[i].pc # "idle"
                   /\ fetches'[i].origin = "range"}

\* the canonical range the hook is rendered with after a step differs from
\* the range triggered last
RequestsNewRange ==
  /\ mounted' = "yes"
  /\ \/ previousRangeRef = JsNull
     \/ normalizeRange(daysRange') # previousRangeRef

\* C2: the range effect starts exactly one fetch each time the canonical
\* range the hook is rendered with differs from the range triggered last,
\* and none when the same range is requested again.
C2_OneFetchPerDistinctRange ==
  [][Cardinality(StartedByRangeEffect) = IF RequestsNewRange THEN 1 ELSE 0]_vars

\* C3: isLoading is true exactly while a history fetch is in flight.
C3_LoadingExactlyWhileInFlight == store.isLoading <=> InFlight(fetches) # {}

\* C4: a fetch whose first two attempts fail in the transport and whose
\* third succeeds makes exactly 3 requests, the second at least 1 s after the
\* first failure and the third at least 2 s after the second failure,
\* returns the decoded body and passes nothing to setError.
C4_RetryTwiceThenSucceed ==
  (done.result # "" /\ done.result # "client" /\ Len(done.log) = 2
     /\ OnlyTransportFailures(done.log))
  => /\ done.requests = 3
     /\ Len(done.waits) = 2
     /\ done.waits[1] >= 1
     /\ done.waits[2] >= 2
     /\ done.returned = done.body
     /\ done.clientError = JsNull

C4_Witness ==
  /\ done.result = "resolved"
  /\ Len(done.log) = 2
  /\ OnlyTransportFailures(done.log)
  /\ done.requests = 3
  /\ done.waits = <<1, 2>>

\* C5: a fetch whose every attempt fails in the transport gives up after
\* exactly 3 requests, having waited twice (not after the last failure);
\* fetchWithRetry writes the message to the store's error and throws it to
\* its caller, whose catch block leaves that message in the store.
C5_GiveUpAfterThreeAttempts ==
  /\ \A i \in Slots : fetches[i].requests <= 3
  /\ (done.result = "client" /\ OnlyTransportFailures(done.log))
     => /\ done.requests = 3
        /\ Len(done.log) = 3
        /\ Len(done.waits) = 2
        /\ done.clientError = Str(done.message)
        /\ store.error = Str(done.message)

C5_Witness ==
  /\ done.result = "client"
  /\ OnlyTransportFailures(done.log)
  /\ done.requests = 3
  /\ done.message = "Failed to fetch"
  /\ store.error = Str("Failed to fetch")

\* C6: a 2xx response whose body validation rejects is never followed by
\* another attempt: no fetch waits to retry after a rejected body.
C6_RejectedBodyIsTerminal ==
  \A i \in Slots :
    fetches[i].pc = "backoff" => fetches[i].log[Len(fetches[i].log)] # "validate"

\* C7: no request is issued for a range that validateDateRangeParams
\* rejects.
C7_InvalidRangeIssuesNoRequest ==
  \A i \in Slots :
    fetches[i].requests > 0 => validateDateRangeParams(fetches[i].range) = ""

\* C8: once disconnect has run, no reconnect timer is pending and no socket
\* is created.
C8_NoReconnectAfterTeardown ==
  mounted = "gone" =>
    \A k \in Sockets : ~sockets[k].timer /\ ~sockets[k].late

\* a step creates socket j from the reconnect timer of socket k
Reconnects(k, j) ==
  /\ sockets[j].readyState = "NONE"
  /\ sockets'[j].readyState = "CONNECTING"
  /\ sockets'[j].parent = k

\* C9: every socket that closed without disconnect having closed it is
\* followed by a new connection attempt, made by its reconnect timer no
\* sooner than 5 s after the close, whether or not the socket had ever been
\* open.
C9_ReconnectAfterEveryClose ==
  /\ [][\A k, j \in Sockets :
          Reconnects(k, j) => sockets[k].delay = 5 /\ sockets[k].elapsed >= 5]_vars
  /\ \A k \in Sockets :
       (sockets[k].readyState = "CLOSED" /\ ~sockets[k].teardown)
         ~> (\E j \in Sockets : sockets[j].readyState = "CONNECTING"
                                  /\ sockets[j].parent = k)

\* a connection attempt made after an attempt that was never established
C9_Witness ==
  \E j \in Sockets :
    /\ sockets[j].readyState = "CONNECTING"
    /\ sockets[j].parent # 0
    /\ sockets[j].retried
    /\ mounted = "yes"

\* the acceptance test as claimed: an object with a timestamp of string type
\* and no error field
HasStringTimestampAndNoError(frame) ==
  /\ frame.parses
  /\ frame.data.t = "object"
  /\ Get(frame.data, "timestamp").t = "string"
  /\ "error" \notin DOMAIN frame.data.o

\* C10: a frame replaces currentMetrics with the decoded message and is
\* passed to the observer if and only if the message has a string timestamp
\* and no error field; any other frame changes neither.
C10_AcceptsIffStringTimestamp ==
  [][lastMessage'.handled =>
       LET frame == lastMessage'.frame IN
       IF HasStringTimestampAndNoError(frame)
         THEN /\ store'.currentMetrics = frame.data
              /\ onMessageCallback => lastMessage'.observed = frame.data
         ELSE /\ store'.currentMetrics = store.currentMetrics
              /\ lastMessage'.observed = Undefined]_vars

\* the step just taken was onmessage for a frame that passed its test
AcceptedMessage ==
  /\ lastMessage'.handled
  /\ lastMessage'.frame.parses
  /\ AcceptsMessage(lastMessage'.frame.data)

\* C11: every successful mutation of riskHistory or currentMetrics leaves
\* error = null: a fetch that resolved and stored its history, and a stream
\* message that was accepted and replaced currentMetrics, whatever error
\* was set before.
C11_SuccessfulMutationClearsError ==
  [][/\ done'.result = "resolved" => store'.error = JsNull
     /\ AcceptedMessage => store'.error = JsNull]_vars

\* C12: a non-null error goes back to null only in a step that is a
\* successful mutation of riskHistory or currentMetrics or an explicit retry
\* of the fetch (refreshData).
C12_ErrorStickyUntilMutationOrRetry ==
  [][(store.error # JsNull /\ store'.error = JsNull)
       => \/ done'.result = "resolved"
          \/ AcceptedMessage
          \/ refreshData]_vars

\* data is of neither shape setRiskData stores
NeitherEnhancedNorArray(data) ==
  /\ ~IsArray(data)
  /\ ~(data.t = "object" /\ IsArray(Get(data, "data")))

\* the step just taken was an update that failed: a fetch that ended in a
\* terminal failure, or a call of setRiskData with data of neither shape
FailedUpdate ==
  \/ done'.result \in {"client", "shape"}
  \/ /\ call.fn = "setRiskData"
     /\ call.passes = 0
     /\ call'.passes = 1
     /\ NeitherEnhancedNorArray(call.arg)

\* C13: a failed update leaves riskHistory, summaryData and currentMetrics
\* as they were and error set.
C13_FailedUpdateKeepsData ==
  [][FailedUpdate =>
       /\ store'.riskHistory = store.riskHistory
       /\ store'.summaryData = store.summaryData
       /\ store'.currentMetrics = store.currentMetrics
       /\ store'.error # JsNull]_vars

\* C14: a body with a data array is stored as it is, data and summary; a
\* body that is an array is stored as the data together with the summary
\* synthesized from it; any other body that reaches the shape check fails
\* with the format error and leaves riskHistory as it was.
C14_NormalizesByShape ==
  [][done'.result \in {"resolved", "shape"} =>
       LET body == done'.returned IN
       IF body.t = "object" /\ IsArray(Get(body, "data"))
         THEN /\ done'.result = "resolved"
              /\ store'.riskHistory = Get(body, "data")
              /\ Get(body, "summary").t = "object" => store'.summaryData = Get(body, "summary")
       ELSE IF IsArray(body)
         THEN /\ done'.result = "resolved"
              /\ store'.riskHistory = body
              /\ store'.summaryData = generateSummaryFromArray(body)
       ELSE /\ done'.result = "shape"
            /\ store'.error = Str("Invalid risk data format received")
            /\ store'.riskHistory = store.riskHistory]_vars

\* a legacy array was fetched and stored with its synthesized summary
C14_Witness ==
  /\ done.result = "resolved"
  /\ done.returned = BodyLegacy
  /\ store.riskHistory = BodyLegacy
  /\ Get(store.summaryData, "period_mean") = Num(1)

\* per-item validation as claimed: a numeric risk score, a regime among the
\* six names, a string timestamp or date
PassesItemValidation(item) ==
  /\ \/ Get(item, "systemic_risk").t = "number"
     \/ Get(item, "systemic_risk_score").t = "number"
  /\ OrElse(Get(item, "risk_level"), Get(item, "market_regime"))
       \in {Str("high"), Str("medium"), Str("low"), Str("RED"), Str("YELLOW"), Str("GREEN")}
  /\ \/ Get(item, "timestamp").t = "string"
     \/ Get(item, "date").t = "string"

\* the observation list of a body (an empty list when it has none)
ObservationList(body) ==
  IF IsArray(body) THEN body.a
  ELSE IF IsArray(Get(body, "data")) THEN Get(body, "data").a
  ELSE <<>>

\* C17: a fetched body whose non-empty observation list holds no item that
\* passes per-item validation is rejected with an error and leaves
\* riskHistory as it was; with at least one valid item the whole list is
\* stored.
C17_RejectsListWithoutValidItem ==
  [][(done'.result \in {"resolved", "shape"} /\ ObservationList(done'.returned) # <<>>) =>
       LET list == ObservationList(done'.returned) IN
       IF \E k \in 1..Len(list) : PassesItemValidation(list[k])
         THEN /\ done'.result = "resolved"
              /\ store'.riskHistory.a = list
         ELSE /\ done'.result = "shape"
              /\ store'.error # JsNull
              /\ store'.riskHistory = store.riskHistory]_vars

\* the risk score an item carries, as an integer
RiskScoreOf(item) ==
  IF Get(item, "systemic_risk").t = "number"
    THEN Get(item, "systemic_risk").n
    ELSE Get(item, "systemic_risk_score").n

RECURSIVE Total(_)
Total(q) == IF q = <<>> THEN 0 ELSE Head(q) + Total(Tail(q))

\* C15: the summary synthesized from a non-empty array has the arithmetic
\* mean, the minimum and the maximum of the items' risk scores
\* (systemic_risk or systemic_risk_score, whichever the item carries) and
\* the dates of the first and the last item; from an empty array it is null.
C15_SummaryOfRiskScores ==
  (call.fn = "generateSummaryFromArray" /\ call.passes = 1) =>
    LET items  == call.arg.a
        scores == [k \in 1..Len(items) |-> RiskScoreOf(items[k])]
        mean   == Get(call.result, "period_mean")
    IN  IF Len(items) = 0
          THEN call.result = JsNull
          ELSE /\ mean.n * Len(items) = Total(scores) * mean.d
               /\ \A k \in 1..Len(items) :
                    /\ AtLeast(Num(scores[k]), Get(call.result, "period_min"))
                    /\ AtLeast(Get(call.result, "period_max"), Num(scores[k]))
               /\ \E k \in 1..Len(items) : Get(call.result, "period_min") = Num(scores[k])
               /\ \E k \in 1..Len(items) : Get(call.result, "period_max") = Num(scores[k])
               /\ Get(Get(call.result, "date_range"), "start") = Get(items[1], "date")
               /\ Get(Get(call.result, "date_range"), "end") = Get(items[Len(items)], "date")

\* std is the square root of the variance num / den: exactly, or cut to
\* three decimals
IsSqrtOf(std, num, den) ==
  /\ std.t = "number"
  /\ std.d # 0
  /\ std.n >= 0
  /\ \/ std.n * std.n * den = num * std.d * std.d
     \/ /\ 1000 % std.d = 0
        /\ LET p == std.n * (1000 \div std.d)
           IN  /\ p * p * den <= num * 1000000
               /\ (p + 1) * (p + 1) * den > num * 1000000

\* the call returned the statistics of a window all of whose items carry a
\* numeric systemic_risk
AggregatedWindow ==
  /\ call.fn \in {"generateSummaryFromArray", "calculatePeriodMetrics"}
  /\ call.passes = 1
  /\ LET items == IF call.fn = "generateSummaryFromArray"
                    THEN call.arg.a ELSE Get(call.arg, "riskHistory").a
     IN  /\ Len(items) > 0
         /\ \A k \in 1..Len(items) : Get(items[k], "systemic_risk").t = "number"

\* C16: period_std of the synthesized summary and systemic_std of the
\* period metrics are the population standard deviation of the window's
\* risk scores x: the square root of (N * sum of x^2 - (sum of x)^2) / N^2,
\* which is the sum of squared deviations from the mean divided by N; over
\* [1, 1, 1] it is 0 and over [0, 2] it is 1.
C16_PopulationStd ==
  AggregatedWindow =>
    LET items == IF call.fn = "generateSummaryFromArray"
                   THEN call.arg.a ELSE Get(call.arg, "riskHistory").a
        x     == [k \in 1..Len(items) |-> Get(items[k], "systemic_risk").n]
        N     == Len(x)
        std   == IF call.fn = "generateSummaryFromArray"
                   THEN Get(call.result, "period_std")
                   ELSE Get(call.result, "systemic_std")
    IN  /\ IsSqrtOf(std, N * Total([k \in 1..N |-> x[k] * x[k]]) - Total(x) * Total(x), N * N)
        /\ x = <<1, 1, 1>> => std = Num(0)
        /\ x = <<0, 2>> => std = Num(1)

\* both aggregators have returned 1 for the window [0, 2]
C16_Witness ==
  /\ AggregatedWindow
  /\ call.fn = "calculatePeriodMetrics"
  /\ Get(call.arg, "riskHistory").a = <<Scored(1, [field |-> "systemic_risk", value |-> 0]),
                                        Scored(2, [field |-> "systemic_risk", value |-> 2])>>
  /\ Get(call.result, "systemic_std") = Num(1)
  /\ Get(generateSummaryFromArray(Get(call.arg, "riskHistory")), "period_std") = Num(1)

\* the rules that hold on a snapshot, as claimed, on the fractions n / d
HarRuleHolds(m) ==
  LET v == Get(m, "har_excess_vol") IN
  v.t = "number" /\ v.n > 2 * v.d

DccRuleHolds(m) ==
  LET v == Get(m, "dcc_correlation") IN
  v.t = "number" /\ 100 * v.n > 95 * v.d

SystemicRuleHolds(m) ==
  LET x  == Get(m, "systemic_risk")
      mu == Get(m, "systemic_mean")
      sd == Get(m, "systemic_std")
  IN  /\ x.t = "number" /\ mu.t = "number" /\ sd.t = "number"
      /\ x.n * mu.d * sd.d > (mu.n * sd.d + sd.n * mu.d) * x.d

RulesHolding(m) ==
  (IF HarRuleHolds(m) THEN {Str("HAR Excess Volatility above threshold")} ELSE {})
    \cup (IF DccRuleHolds(m) THEN {Str("DCC Correlation elevated")} ELSE {})
    \cup (IF SystemicRuleHolds(m) THEN {Str("Systemic risk above normal range")} ELSE {})

\* C18: the warning descriptor's isWarning is the snapshot's
\* composite_warning flag (false when the snapshot has none) whatever the
\* reasons are, and reasons lists exactly the rules that hold on the
\* snapshot, each once; for har_excess_vol = 2.5, dcc_correlation = 0.5,
\* systemic_risk = 0, systemic_mean = 0, systemic_std = 1 it is the HAR
\* reason alone.
C18_WarningFlagAndReasons ==
  (call.fn = "getWarningStatus" /\ call.passes = 1) =>
    LET m       == call.arg
        reasons == Get(call.result, "reasons").a
    IN  /\ Get(call.result, "isWarning") = Bool(Get(m, "composite_warning") = Bool(TRUE))
        /\ {reasons[k] : k \in 1..Len(reasons)} = RulesHolding(m)
        /\ Len(reasons) = Cardinality(RulesHolding(m))
        /\ (/\ Get(m, "har_excess_vol") = Rat(5, 2)
            /\ Get(m, "dcc_correlation") = Rat(1, 2)
            /\ Get(m, "systemic_risk") = Num(0)
            /\ Get(m, "systemic_mean") = Num(0)
            /\ Get(m, "systemic_std") = Num(1))
           => reasons = <<Str("HAR Excess Volatility above threshold")>>

\* the flag is raised upstream on a snapshot on which no rule holds
C18_Witness ==
  /\ call.fn = "getWarningStatus"
  /\ call.passes = 1
  /\ Get(call.arg, "composite_warning") = Bool(TRUE)
  /\ Get(call.arg, "har_excess_vol") = Num(2)
  /\ Get(call.result, "isWarning") = Bool(TRUE)
  /\ Get(call.result, "reasons") = Arr(<<>>)

\* the scorable fields and their points, as claimed
CoreFields == {"systemic_risk", "risk_level", "timestamp"}

OptionalSignals ==
  {"pca_component", "credit_component", "quantile_signal", "dcc_correlation",
   "har_excess_vol_z", "composite_risk_score"}

FieldPresent(data, f) == data.t = "object" /\ f \in DOMAIN data.o

FieldValid(data, f) ==
  LET v == Get(data, f) IN
  CASE f = "risk_level" -> v.t = "string" /\ v.s \in {"high", "medium", "low"}
    [] f = "timestamp"  -> v.t = "string" /\ v.s # ""
    [] OTHER            -> v.t = "number" /\ v.d # 0

PointsPossible(data) ==
  20 * Cardinality({f \in CoreFields : FieldPresent(data, f)})
    + 5 * Cardinality({f \in OptionalSignals : FieldPresent(data, f)})

PointsEarned(data) ==
  20 * Cardinality({f \in CoreFields : FieldPresent(data, f) /\ FieldValid(data, f)})
    + 5 * Cardinality({f \in OptionalSignals : FieldPresent(data, f) /\ FieldValid(data, f)})

\* C19: the data quality score is 100 * earned / possible, with 20 points
\* for each core field and 5 for each optional signal, possible counting the
\* fields that are present and earned those that are also valid; it is 0
\* when no scorable field is present, lies in [0, 100], and is 100 for
\* {systemic_risk: 1, risk_level: "low", timestamp: "2024-01-01"}.
C19_QualityScore ==
  (call.fn = "getDataQualityScore" /\ call.passes = 1) =>
    LET data  == call.arg
        score == call.result
    IN  /\ score.t = "number"
        /\ score.d > 0
        /\ score.n * PointsPossible(data) = 100 * PointsEarned(data) * score.d
        /\ PointsPossible(data) = 0 => score = Num(0)
        /\ 0 <= score.n
        /\ score.n <= 100 * score.d
        /\ data = Obj([systemic_risk |-> Num(1), risk_level |-> Str("low"),
                       timestamp |-> Str("2024-01-01")])
             => score = Num(100)

\* a record with an invalid core field and valid signals scores in between
C19_Witness ==
  /\ call.fn = "getDataQualityScore"
  /\ call.passes = 1
  /\ PointsPossible(call.arg) = 60
  /\ PointsEarned(call.arg) = 35
  /\ call.result = Rat(175, 3)

\* C20: sanitizeRiskData is idempotent: applied to what it returned, it
\* returns the same value again.
C20_SanitizeIdempotent ==
  (call.fn = "sanitizeRiskData" /\ call.passes = 2) => call.result = call.before

\* the second pass over a record in which the first pass rounded a number
\* with 7 decimals, rounded a tie away from zero and coerced a flag
C20_Witness ==
  /\ call.fn = "sanitizeRiskData"
  /\ call.passes = 2
  /\ Get(call.arg, "systemic_risk") = Rat(-15, 10000000)
  /\ Get(call.result, "systemic_risk") = Rat(-2, 1000000)
  /\ Get(call.arg, "dcc_correlation") = Rat(1, 7)
  /\ Get(call.result, "dcc_correlation") = Rat(142857, 1000000)
  /\ Get(call.arg, "is_warning") = Num(1)
  /\ Get(call.result, "is_warning") = Bool(TRUE)

\* the dates of the history the views are given, in the order of the list
DisplayedDates == [k \in 1..Len(getDisplayData(store).a) |->
                     Get(getDisplayData(store).a[k], "date").s]

\* C21: the history of the store is ordered by date ascending after any
\* sequence of fetches and stream messages, whatever the order in which the
\* response listed the observations.
C21_HistoryOrderedByDate ==
  \A i, j \in 1..Len(DisplayedDates) :
    i < j => DateOrder(DisplayedDates[i]) <= DateOrder(DisplayedDates[j])

\* the step just taken was onmessage for a frame that does not decode or
\* whose message has no string timestamp or has an error field
DroppedMessage ==
  /\ lastMessage'.handled
  /\ ~HasStringTimestampAndNoError(lastMessage'.frame)

\* the step left the connection, the history, the summary and the snapshot
\* as they were, and the socket open for the next frame
LeavesStreamAndDataAlone ==
  /\ sockets' = sockets
  /\ socketRef' = socketRef
  /\ \E j \in Sockets : sockets'[j].readyState = "OPEN"
  /\ store'.riskHistory = store.riskHistory
  /\ store'.summaryData = store.summaryData
  /\ store'.currentMetrics = store.currentMetrics

\* C22: a frame that cannot be decoded or whose message fails the acceptance
\* check (a string timestamp and no error field) is dropped: the sockets,
\* riskHistory, summaryData and currentMetrics are the same after the handler
\* as before it, and the socket stays open, so that later frames are handled.
C22_DroppedMessageChangesNothing ==
  [][DroppedMessage => LeavesStreamAndDataAlone]_vars

\* the valid systemic risk values of the window calculatePeriodMetrics was
\* called on, oldest first
WindowRisks ==
  LET items == Get(call.arg, "riskHistory").a
      HasRisk(item) == Get(item, "systemic_risk").t = "number"
      kept == SelectSeq(items, HasRisk)
  IN  [k \in 1..Len(kept) |-> Get(kept[k], "systemic_risk").n]

\* calculatePeriodMetrics has returned the metrics of a window with at least
\* one valid systemic risk value
PeriodMetricsComputed ==
  /\ call.fn = "calculatePeriodMetrics"
  /\ call.passes = 1
  /\ Len(WindowRisks) > 0

\* C23: the regime of the period view is high when the current value (the
\* latest valid systemic risk of the window) is at least mean + std, medium
\* when it is at least mean + std / 2 and below mean + std, and low otherwise,
\* with the population mean and standard deviation of the window; over a
\* window of equal values (std = 0) it is high.  With N values x, D = N *
\* current - sum of x and W = N * sum of x^2 - (sum of x)^2, current >= mean
\* + c * std is D >= 0 and D^2 >= c^2 * W.
C23_PeriodRegimeThresholds ==
  PeriodMetricsComputed =>
    LET x == WindowRisks
        N == Len(x)
        D == N * x[N] - Total(x)
        W == N * Total([k \in 1..N |-> x[k] * x[k]]) - Total(x) * Total(x)
        level == Get(call.result, "risk_level")
    IN  /\ level = Str(IF D >= 0 /\ D * D >= W THEN "high"
                       ELSE IF D >= 0 /\ 4 * D * D >= W THEN "medium"
                       ELSE "low")
        /\ W = 0 => level = Str("high")

\* the window [0, 2, 2] has been classified as medium
C23_Witness ==
  /\ PeriodMetricsComputed
  /\ WindowRisks = <<0, 2, 2>>
  /\ Get(call.result, "risk_level") = Str("medium")

\* the z-scores the rows of the window carry, oldest first
WindowZScores ==
  LET items == Get(call.arg, "riskHistory").a
      HasZ(item) == Get(item, "z_score").t = "number"
      kept == SelectSeq(items, HasZ)
  IN  [k \in 1..Len(kept) |-> Get(kept[k], "z_score").n]

\* C24: when the latest snapshot carries a systemic risk value v, z_score of
\* the period metrics is (v - mean) / std of the window (for std > 0); when
\* it carries none, z_score is the average of the z-scores of the window's
\* rows (null when no row has one).  With N values x of sum S, E = N * v - S
\* and W = N * sum of x^2 - S^2, z = (v - mean) / std is: z has the sign of E
\* and z^2 * W = E^2.
C24_ZScoreOfSnapshotValue ==
  PeriodMetricsComputed =>
    LET x == WindowRisks
        N == Len(x)
        W == N * Total([k \in 1..N |-> x[k] * x[k]]) - Total(x) * Total(x)
        v == Get(Get(call.arg, "currentMetrics"), "systemic_risk")
        z == Get(call.result, "z_score")
        rows == WindowZScores
    IN  IF v.t = "number"
          THEN W > 0 =>
                 LET E == N * v.n - Total(x) * v.d IN
                 /\ z.t = "number"
                 /\ z.d # 0
                 /\ (z.n > 0) = (E > 0)
                 /\ (z.n < 0) = (E < 0)
                 /\ z.n * z.n * v.d * v.d * W = E * E * z.d * z.d
          ELSE IF Len(rows) = 0
                 THEN z = JsNull
                 ELSE z.t = "number" /\ z.n * Len(rows) = Total(rows) * z.d

\* the tooltip has rendered for a payload whose systemic risk score is a
\* number
TooltipShown ==
  /\ call.fn = "CustomTooltip"
  /\ call.passes = 1
  /\ call.result # JsNull
  /\ PayloadValue(Get(call.arg, "payload"), "systemic_risk_score").t = "number"

\* C25: the static fallback thresholds give RED for a score >= 0.5, YELLOW
\* for 0.0 <= score < 0.5 and GREEN for a score < 0.0; a score of exactly 0.0
\* is YELLOW and a score of exactly 0.5 is RED.
C25_FallbackBands ==
  TooltipShown =>
    LET srs == PayloadValue(Get(call.arg, "payload"), "systemic_risk_score")
        regime == Get(call.result, "regime")
    IN  /\ 2 * srs.n >= srs.d => regime = Str("RED")
        /\ (srs.n >= 0 /\ 2 * srs.n < srs.d) => regime = Str("YELLOW")
        /\ srs.n < 0 => regime = Str("GREEN")

\* the step just taken was a fetch that resolved with a body that carries
\* no current metrics
FetchedWithoutCurrentMetrics ==
  /\ done'.result = "resolved"
  /\ Get(done'.returned, "current_metrics") = Undefined

\* C26: a successful history fetch changes riskHistory, summaryData, error
\* and lastUpdated only (and the loading flag of the fetch itself): when the
\* response carries no current metrics, currentMetrics, the snapshot the
\* stream delivered last, is the same after the fetch as before it.
C26_FetchKeepsStreamSnapshot ==
  [][FetchedWithoutCurrentMetrics =>
       /\ store'.currentMetrics = store.currentMetrics
       /\ sockets' = sockets
       /\ socketRef' = socketRef]_vars

\* the fetches that settled in the step just taken
SettledFetches == {i \in Slots : fetches[i].pc = "awaiting" /\ fetches'[i].pc = "idle"}

\* C27: when the requested range changes while a fetch is in flight and no
\* further change follows, then once all fetches have resolved riskHistory is
\* the response to a request for the range requested last: the step in which
\* the last fetch in flight resolves settles a fetch of the range the hook is
\* rendered with (a range validateDateRangeParams accepts), so that no range
\* is dropped.
C27_LastRequestedRangeIsFetched ==
  [][(/\ done'.result = "resolved"
      /\ InFlight(fetches') = {}
      /\ validateDateRangeParams(normalizeRange(daysRange')) = "")
       => \E i \in SettledFetches : fetches[i].range = normalizeRange(daysRange')]_vars

\* the sockets that are connecting or open
LiveSockets == {k \in Sockets : sockets[k].readyState \in {"CONNECTING", "OPEN"}}

\* the reconnect timers that are pending
PendingTimers == {k \in Sockets : sockets[k].timer}

\* C28: at most one socket is connecting or open at any time: when connect
\* runs again (from a reconnect timer, or because the effect ran again after
\* a dependency changed) no earlier socket stays alive next to the new one,
\* and at most one reconnect timer that can create a socket is pending.
C28_AtMostOneLiveSocket ==
  /\ Cardinality(LiveSockets) <= 1
  /\ Cardinality(PendingTimers) <= 1

\* the errors the stream client sets
StreamClientErrors ==
  { Str("Failed to establish WebSocket connection"),
    Str("WebSocket connection error"),
    Str("Failed to process WebSocket message") }

\* C29: with realtime disabled (the stream endpoint is null) no stream
\* connection is ever opened or attempted, and the stream client never
\* writes the store: no socket object exists, no reconnect timer is pending,
\* and error is never one of the stream client's errors.
C29_RealtimeOffNoStream ==
  endpoint = JsNull =>
    /\ \A k \in Sockets : sockets[k].readyState = "NONE" /\ ~sockets[k].timer
    /\ socketRef = 0
    /\ store.error \notin StreamClientErrors

\* the band of a regime value: its label and the colour of its lamp
BandOf(regime) ==
  IF regime \in {"high", "RED"} THEN [label |-> "CRISIS", lamp |-> "bg-red-500"]
  ELSE IF regime \in {"medium", "YELLOW"} THEN [label |-> "FRAGILE", lamp |-> "bg-yellow-500"]
  ELSE [label |-> "NORMAL", lamp |-> "bg-green-500"]

\* C30: for every regime value the traffic light can be given (high, medium,
\* low, RED, YELLOW, GREEN), the risk_level of the period metrics the App
\* passes included, the band it shows is that regime's: high and RED show
\* CRISIS with the red lamp, medium and YELLOW show FRAGILE with the yellow
\* lamp, low and GREEN show NORMAL with the green lamp.
C30_BandOfRegime ==
  (/\ call.fn = "TrafficLight"
   /\ call.passes = 1
   /\ ~Truthy(Get(call.arg, "isLoading"))
   /\ Get(call.arg, "regime").t = "string"
   /\ Get(call.arg, "regime").s \in {"high", "medium", "low", "RED", "YELLOW", "GREEN"})
    => /\ Get(call.result, "label") = Str(BandOf(Get(call.arg, "regime").s).label)
       /\ Get(call.result, "lamp") = Str(BandOf(Get(call.arg, "regime").s).lamp)

====
